---- MODULE Spec2Model ----
(***************************************************************************)
(* A model of the monitoring-and-resilience engine of health-monitor:      *)
(*   - StateManager   (health_monitor/services/state_manager.py)           *)
(* Each component has its own specification over the shared variables; the *)
(* variables of the other components stay at their initial values.         *)
(***************************************************************************)
EXTENDS Integers, Sequences, FiniteSets, Bags, TLC

\* ------------------------------------------------------------------ bounds
\* Number of update_state calls explored in one behaviour.
MaxResults == 4
\* Last value of the state tracker's clock (the unit of cleanup_history: days).
MaxDay == 2

\* ------------------------------------------------------------- vocabulary
Services == {"a", "b"}

\* Python's None / Some(x), as a sequence of length 0 or 1.
None == <<>>
Some(x) == <<x>>

Last(seq) == seq[Len(seq)]

RECURSIVE SelectSeqBy(_, _)
\* The list comprehension [x for x in seq if x.timestamp >= cutoff].
SelectSeqBy(seq, cutoff) ==
    IF seq = <<>> THEN <<>>
    ELSE LET rest == SelectSeqBy(Tail(seq), cutoff)
         IN IF Head(seq).timestamp >= cutoff THEN <<Head(seq)>> \o rest ELSE rest

\* seq[-n:]
LastN(seq, n) ==
    IF Len(seq) <= n THEN seq ELSE SubSeq(seq, Len(seq) - n + 1, Len(seq))

VARIABLES
    now,               \* the wall clock (datetime.now() / time.time())
    \* --- StateManager
    current_states,    \* dict service -> bool
    state_history,     \* list of HealthCheckResult
    state_changes,     \* list of StateChange
    persistence_file,  \* whether a persistence file is configured
    file,              \* the content of the persistence file, None when absent
    sm_ret,            \* history: the value returned by the last update_state
    processed,         \* history: every result the tracker has been given
    \* --- CircuitBreaker and with_circuit_breaker
    breaker,           \* the CircuitBreaker record
    cb_inflight,       \* wrapped operations admitted and not yet finished
    cb_op,             \* history: the last call made on the breaker
    cb_ret,            \* history: what the last should_allow_request / call gave
    cb_flip,           \* history: changes at every call made on the breaker
    cb_fail_run,       \* history: <<state before, length>> of the current run
                       \*          of consecutive record_failure calls
    cb_ho_successes,   \* history: successes recorded since HALF_OPEN was entered
    cb_ho_admitted,    \* history: wrapped operations invoked since HALF_OPEN
                       \*          was entered, the call that entered it included
    \* --- AlertManager
    alerters,          \* the registered alerters (by name)
    alert_history,     \* _alert_history: dict alert key -> timestamp
    sent,              \* per alert key, the notifications handed to the alerters
    am_flip,           \* history: changes at every send_alert call
    last_delivered,    \* history: per service, the status of the last notification
                       \*          an alerter accepted
    last_emit,         \* history: per key, the timestamp of the last notification
                       \*          emitted since the history was last cleared
    \* --- MonitorScheduler
    is_running,            \* MonitorScheduler.is_running
    stopping,              \* stop() has cancelled the tasks and awaits them
    max_concurrent_checks, \* MonitorScheduler.max_concurrent_checks
    semaphore,             \* self.semaphore: 0 for None, else the object's index
    sems,                  \* the free slots of every Semaphore object created
    tasks,                 \* running_tasks: the check tasks not yet finished
    last_check_times,      \* dict service -> start time of its last check
    last_spawn,            \* history: dict service -> the time the tick loop
                           \*          last created a check task for it
    loop,                  \* _schedule_loop: "idle" or "sleeping"
    loop_wake,             \* the time the loop's asyncio.sleep(1) ends
    checkers,              \* self.checkers: the configured services, in dict order
    check_intervals,       \* self.check_intervals: dict service -> seconds
    on_check_error,        \* whether an error callback is registered
    cfg_ret,               \* history: how the last configure_services ended
    \* --- MonitorScheduler.check_all_services_now
    cn_state,              \* "idle", or "gathering" while the call awaits its tasks
    cn_names,              \* service_names: the services the call made tasks for
    cn_tasks,              \* per service, where its check_service_now task is
    cn_task_results,       \* per finished task, the value it returned
    cn_results,            \* history: the dict returned by the last call
    cn_outcomes,           \* history: per service, what its probe did
    cn_errors,             \* history: per service, error callback invocations
    \* --- AlertManager fan-out
    alerter_mode,          \* per alerter, what its send_alert does: "ok" (true),
                           \* "false", or "raise"
    am_results,            \* history: the results gathered by the last fan-out
    \* --- AlertIntegrator
    alert_filters,         \* the filter chain: what each filter does with a change
    pre_alert_callbacks,   \* the pre-dispatch hooks: what each one does
    post_alert_callbacks,  \* the post-dispatch hooks: what each one does
    ai_change,             \* history: the change given to the last trigger_alert
    filter_calls,          \* history: filters evaluated by the last trigger_alert
    pre_calls,             \* history: pre hooks invoked by the last trigger_alert
    post_calls,            \* history: <<hook, success>> of every post hook
                           \*          invocation of the last trigger_alert
    \* --- retry_on_error around with_circuit_breaker
    retryable_errors,      \* RetryConfig.retryable_errors (error type names)
    rt_pc,                 \* where the retry wrapper is: "idle", about to make
                           \* an "attempt", in its backoff "sleep", "returned"
                           \* or "raised"
    rt_attempt,            \* the loop variable `attempt`
    rt_log,                \* history: one record per attempt of the call
    rt_error,              \* last_error, "none" while there is none
    rt_wake,               \* the earliest time the backoff sleep ends
    \* --- ResilienceManager and with_fallback (one key)
    fallback_mode,         \* the registered fallback: a value, a function, or
                           \* a function that raises
    service_states,        \* ResilienceManager.service_states (dict)
    failure_counts,        \* ResilienceManager.failure_counts (dict of lists)
    fb_ret,                \* history: the last with_fallback call
    \* --- _check_service callbacks
    task_exceptions,       \* history: services whose check task ended with an
                           \*          exception
    \* --- AlertIntegrator._initialize_alerters / reload_alert_config
    ic_configs,            \* the alert_configs last given
    ic_ret,                \* history: how the last construction / reload ended
    \* --- AlertManager.render_template
    tpl_template,          \* the template string (a sequence of tokens)
    tpl_message,           \* the AlertMessage
    tpl_ret,               \* history: what the last render_template gave
    \* --- optimize_concurrent_checks
    opt_sample,            \* history: <<bound before, sample>> of the last
                           \*          adjustment
    \* --- PartialFailureHandler
    continue_on_partial_failure, \* the constructor's argument
    failed_services,       \* list of the services recorded as failed
    successful_services,   \* list of the services recorded as successful
    pf_ret                 \* history: what the last should_continue returned

smVars == <<current_states, state_history, state_changes, persistence_file,
            file, sm_ret, processed>>

cbVars == <<breaker, cb_inflight, cb_op, cb_ret, cb_flip, cb_fail_run,
            cb_ho_successes, cb_ho_admitted>>

amVars == <<alerters, alert_history, sent, am_flip, last_emit, last_delivered, alerter_mode,
            am_results>>

schVars == <<is_running, stopping, max_concurrent_checks, semaphore, sems, tasks,
             last_check_times, last_spawn, loop, loop_wake>>

cfgVars == <<checkers, check_intervals, on_check_error, cfg_ret>>

cnVars == <<cn_state, cn_names, cn_tasks, cn_task_results, cn_results, cn_outcomes,
            cn_errors>>

aiVars == <<alert_filters, pre_alert_callbacks, post_alert_callbacks, ai_change,
            filter_calls, pre_calls, post_calls>>

rtVars == <<retryable_errors, rt_pc, rt_attempt, rt_log, rt_error, rt_wake>>

fbVars == <<fallback_mode, service_states, failure_counts, fb_ret>>

icVars == <<ic_configs, ic_ret>>

tplVars == <<tpl_template, tpl_message, tpl_ret>>

pfVars == <<continue_on_partial_failure, failed_services, successful_services, pf_ret>>

resVars == <<rtVars, fbVars, task_exceptions, icVars, tplVars, opt_sample, pfVars>>

extVars == <<cfgVars, cnVars, aiVars, resVars>>

vars == <<now, smVars, cbVars, amVars, schVars, extVars>>

\* ========================================================== CircuitBreaker

\* CircuitBreakerConfig of the modelled breaker (arguments of with_circuit_breaker).
FailureThreshold == 3
RecoveryTimeout == 2
HalfOpenMaxCalls == 2
\* Last value of the breaker's clock (time.time(), seconds).
MaxClock == 5
\* Cap of failure_count, which the code never resets while OPEN.
MaxFailureCount == 5
\* Wrapped operations in flight at once (the async wrapper).
MaxInflight == 2

CLOSED == "closed"
OPEN == "open"
HALF_OPEN == "half_open"

\* CircuitBreaker(name, config): the dataclass defaults.
NewCircuitBreaker ==
    [state |-> CLOSED, failure_count |-> 0, last_failure_time |-> 0,
     success_count |-> 0]

\* A plausible slip: the recovery test left out, so an OPEN breaker admits at once.
ShouldAllowNoTimeout(cb, current_time) ==
    IF cb.state = CLOSED THEN <<TRUE, cb>>
    ELSE IF cb.state = OPEN
         THEN <<TRUE, [cb EXCEPT !.state = HALF_OPEN, !.success_count = 0]>>
         ELSE <<cb.success_count < HalfOpenMaxCalls, cb>>

\* CircuitBreaker.should_allow_request: <<returned value, breaker afterwards>>.
ShouldAllowRequest(cb, current_time) ==
    IF cb.state = CLOSED THEN <<TRUE, cb>>
    ELSE IF cb.state = OPEN
         THEN IF current_time - cb.last_failure_time >= RecoveryTimeout
              THEN <<TRUE, [cb EXCEPT !.state = HALF_OPEN, !.success_count = 0]>>
              ELSE <<FALSE, cb>>
         ELSE <<cb.success_count < HalfOpenMaxCalls, cb>>

\* A plausible slip: the first success in HALF_OPEN closes the breaker.
RecordSuccessClosesAtOnce(cb) ==
    IF cb.state = HALF_OPEN
    THEN [cb EXCEPT !.success_count = cb.success_count + 1, !.state = CLOSED,
                    !.failure_count = 0]
    ELSE IF cb.state = CLOSED THEN [cb EXCEPT !.failure_count = 0] ELSE cb

\* A plausible slip: the half-open branch taken for every state but CLOSED.
RecordSuccessNotClosed(cb) ==
    IF cb.state # CLOSED
    THEN IF cb.success_count + 1 >= HalfOpenMaxCalls
         THEN [cb EXCEPT !.success_count = cb.success_count + 1, !.state = CLOSED,
                         !.failure_count = 0]
         ELSE [cb EXCEPT !.success_count = cb.success_count + 1]
    ELSE [cb EXCEPT !.failure_count = 0]

\* CircuitBreaker.record_success
RecordSuccess(cb) ==
    IF cb.state = HALF_OPEN
    THEN IF cb.success_count + 1 >= HalfOpenMaxCalls
         THEN [cb EXCEPT !.success_count = cb.success_count + 1, !.state = CLOSED,
                         !.failure_count = 0]
         ELSE [cb EXCEPT !.success_count = cb.success_count + 1]
    ELSE IF cb.state = CLOSED THEN [cb EXCEPT !.failure_count = 0] ELSE cb

\* CircuitBreaker.record_failure
RecordFailure(cb, current_time) ==
    LET c == [cb EXCEPT !.failure_count = cb.failure_count + 1,
                        !.last_failure_time = current_time]
    IN IF cb.state = CLOSED
       THEN IF c.failure_count >= FailureThreshold THEN [c EXCEPT !.state = OPEN]
            ELSE c
       ELSE IF cb.state = HALF_OPEN THEN [c EXCEPT !.state = OPEN]
            ELSE c

\* The history variables after a call `op` that takes the breaker to `cb`.
CBHistory(op, ret, cb) ==
    /\ cb_op' = op
    /\ cb_ret' = ret
    /\ cb_flip' = 1 - cb_flip
    /\ cb_fail_run' = IF op = "record_failure"
                      THEN IF cb_op = "record_failure"
                           THEN <<cb_fail_run[1], cb_fail_run[2] + 1>>
                           ELSE <<breaker.state, 1>>
                      ELSE <<breaker.state, 0>>
    /\ cb_ho_successes' =
         IF breaker.state # HALF_OPEN /\ cb.state = HALF_OPEN THEN 0
         ELSE IF breaker.state = HALF_OPEN /\ op = "record_success"
              THEN cb_ho_successes + 1
              ELSE cb_ho_successes
    /\ cb_ho_admitted' =
         IF op = "call" /\ ret /\ cb.state = HALF_OPEN
         THEN IF breaker.state = HALF_OPEN THEN cb_ho_admitted + 1 ELSE 1
         ELSE IF breaker.state # HALF_OPEN /\ cb.state = HALF_OPEN THEN 0
              ELSE cb_ho_admitted

\* A direct call of should_allow_request.
should_allow_request ==
    LET r == ShouldAllowRequest(breaker, now)
    IN /\ breaker' = r[2]
       /\ CBHistory("should_allow_request", r[1], r[2])
       /\ UNCHANGED <<extVars, now, smVars, amVars, schVars, cb_inflight>>

\* A direct call of record_success.
record_success ==
    /\ breaker' = RecordSuccess(breaker)
    /\ CBHistory("record_success", TRUE, breaker')
    /\ UNCHANGED <<extVars, now, smVars, amVars, schVars, cb_inflight>>

\* A direct call of record_failure.
record_failure ==
    /\ breaker.failure_count < MaxFailureCount
    /\ breaker' = RecordFailure(breaker, now)
    /\ CBHistory("record_failure", TRUE, breaker')
    /\ UNCHANGED <<extVars, now, smVars, amVars, schVars, cb_inflight>>

\* with_circuit_breaker, entry of the wrapper: the call is rejected with
\* CheckerError(SERVICE_UNAVAILABLE) or the wrapped operation is invoked.
wrapper_call ==
    LET r == ShouldAllowRequest(breaker, now)
    IN /\ cb_inflight < MaxInflight
       /\ breaker' = r[2]
       /\ cb_inflight' = IF r[1] THEN cb_inflight + 1 ELSE cb_inflight
       /\ CBHistory("call", r[1], r[2])
       /\ UNCHANGED <<extVars, now, smVars, amVars, schVars>>

\* with_circuit_breaker: the wrapped operation returned.
wrapper_return ==
    /\ cb_inflight > 0
    /\ cb_inflight' = cb_inflight - 1
    /\ breaker' = RecordSuccess(breaker)
    /\ CBHistory("record_success", TRUE, breaker')
    /\ UNCHANGED <<extVars, now, smVars, amVars, schVars>>

\* with_circuit_breaker: the wrapped operation raised.
wrapper_raise ==
    /\ cb_inflight > 0
    /\ breaker.failure_count < MaxFailureCount
    /\ cb_inflight' = cb_inflight - 1
    /\ breaker' = RecordFailure(breaker, now)
    /\ CBHistory("record_failure", TRUE, breaker')
    /\ UNCHANGED <<extVars, now, smVars, amVars, schVars>>

\* time.time() advances by one second.
CBTick ==
    /\ now < MaxClock
    /\ now' = now + 1
    /\ UNCHANGED <<extVars, smVars, cbVars, amVars, schVars>>

\* ============================================================ StateManager

\* The service type a checker reports for a service (BaseHealthChecker.service_type).
ServiceType(s) == IF s = "a" THEN "redis" ELSE "mysql"

\* HealthCheckResult: response_time, error_message and metadata are payload
\* that update_state only copies and are left out.
HealthCheckResult(s, h, t) ==
    [service_name |-> s, service_type |-> ServiceType(s), is_healthy |-> h,
     timestamp |-> t]

\* The saved slice of state_changes: self.state_changes[-100:].
SaveLimit == 100

\* A plausible slip: a missing entry read as "healthy" (dict.get(name, True)).
OldStateDefaultHealthy(states, service_name) ==
    IF service_name \in DOMAIN states THEN Some(states[service_name]) ELSE Some(TRUE)

\* old_state = self.current_states.get(service_name)
OldState(states, service_name) ==
    IF service_name \in DOMAIN states THEN Some(states[service_name]) ELSE None

\* A plausible slip: the event built with the two states exchanged.
StateChangeSwapped(result, old_state) ==
    [service_name |-> result.service_name, service_type |-> result.service_type,
     old_state |-> result.is_healthy, new_state |-> old_state,
     timestamp |-> result.timestamp]

\* StateChange(service_name=..., old_state=old_state, new_state=new_state, ...)
StateChange(result, old_state) ==
    [service_name |-> result.service_name, service_type |-> result.service_type,
     old_state |-> old_state, new_state |-> result.is_healthy,
     timestamp |-> result.timestamp]

\* A plausible slip: every result after the first is taken for a change.
IsStateChangedAlways(old_state, new_state) == TRUE

\* elif old_state != new_state
IsStateChanged(old_state, new_state) == old_state # new_state

\* dict assignment d[k] = v
DictSet(d, k, v) == [x \in (DOMAIN d) \cup {k} |-> IF x = k THEN v ELSE d[x]]

\* json.dump / json.load of a bool.
JsonBool(b) == IF b THEN "true" ELSE "false"
FromJsonBool(text) == text = "true"

\* datetime.isoformat / datetime.fromisoformat.
IsoFormat(t) == <<"iso", t>>
FromIsoFormat(text) == text[2]

\* One entry of 'state_changes' as _save_state writes it, and the
\* StateChange _load_state builds from it.
ChangeToJson(change) ==
    [service_name |-> change.service_name, service_type |-> change.service_type,
     old_state |-> JsonBool(change.old_state), new_state |-> JsonBool(change.new_state),
     timestamp |-> IsoFormat(change.timestamp)]
ChangeFromJson(data) ==
    [service_name |-> data.service_name, service_type |-> data.service_type,
     old_state |-> FromJsonBool(data.old_state),
     new_state |-> FromJsonBool(data.new_state),
     timestamp |-> FromIsoFormat(data.timestamp)]

\* A plausible slip: the file written before the new state is stored, so
\* that it holds the states as they were before the call.
SavedStateStale(states, changes) ==
    [current_states |-> [k \in DOMAIN current_states |-> JsonBool(current_states[k])],
     state_changes |-> [i \in 1..Len(LastN(changes, SaveLimit)) |->
                           ChangeToJson(LastN(changes, SaveLimit)[i])]]

\* _save_state: the JSON document written to the persistence file.
SavedState(states, changes) ==
    [current_states |-> [k \in DOMAIN states |-> JsonBool(states[k])],
     state_changes |-> [i \in 1..Len(LastN(changes, SaveLimit)) |->
                           ChangeToJson(LastN(changes, SaveLimit)[i])]]

\* _load_state: current_states and state_changes read back from the document.
LoadCurrentStates(data) ==
    [k \in DOMAIN data.current_states |-> FromJsonBool(data.current_states[k])]
LoadStateChanges(data) ==
    [i \in 1..Len(data.state_changes) |-> ChangeFromJson(data.state_changes[i])]

\* The body of StateManager.update_state.
UpdateState(result) ==
    LET service_name == result.service_name
        new_state == result.is_healthy
        old_state == OldState(current_states, service_name)
        changed == old_state # None /\ IsStateChanged(old_state[1], new_state)
        state_change == IF changed THEN Some(StateChange(result, old_state[1]))
                        ELSE None
        changes == IF changed THEN Append(state_changes, state_change[1])
                   ELSE state_changes
        states == DictSet(current_states, service_name, new_state)
    IN /\ state_history' = Append(state_history, result)
       /\ current_states' = states
       /\ state_changes' = changes
       /\ file' = IF persistence_file THEN Some(SavedState(states, changes)) ELSE file
       /\ sm_ret' = state_change
       /\ processed' = Append(processed, result)
       /\ UNCHANGED persistence_file

\* StateManager.update_state called on its own.
update_state(result) ==
    /\ Len(processed) < MaxResults
    /\ UpdateState(result)
    /\ UNCHANGED <<extVars, now, cbVars, amVars, schVars>>

clear_state_changes ==
    /\ state_changes # <<>>
    /\ state_changes' = <<>>
    /\ UNCHANGED <<extVars, now, current_states, state_history, persistence_file, file,
                   sm_ret, processed, cbVars, amVars, schVars>>

cleanup_history(keep_days) ==
    LET cutoff_time == now - keep_days
    IN /\ state_history' = SelectSeqBy(state_history, cutoff_time)
       /\ state_changes' = SelectSeqBy(state_changes, cutoff_time)
       /\ <<state_history', state_changes'>> # <<state_history, state_changes>>
       /\ UNCHANGED <<extVars, now, current_states, persistence_file, file, sm_ret, processed,
                      cbVars, amVars, schVars>>

\* StateManager.__init__ on the same persistence file (a restart of the process).
\* Without a persistence file the new tracker knows nothing of the old one.
StateManager_init ==
    /\ processed # <<>>
    /\ state_history' = <<>>
    /\ sm_ret' = None
    /\ IF persistence_file /\ file # None
       THEN /\ current_states' = LoadCurrentStates(file[1])
            /\ state_changes' = LoadStateChanges(file[1])
            /\ processed' = processed
       ELSE /\ current_states' = <<>>
            /\ state_changes' = <<>>
            /\ processed' = <<>>
    /\ UNCHANGED <<extVars, now, persistence_file, file, cbVars, amVars, schVars>>

\* The clock of the state tracker advances by one day.
SMTick ==
    /\ now < MaxDay
    /\ now' = now + 1
    /\ UNCHANGED <<extVars, smVars, cbVars, amVars, schVars>>

\* ============================================================ AlertManager

\* self._duplicate_threshold = timedelta(minutes=5); the clock counts minutes.
DuplicateThreshold == 5
\* Last value of the dispatcher's clock (minutes).
MaxMinute == 11
\* Notifications handed to the alerters in one behaviour.
MaxSent == 2

Alerters == {"n1", "n2"}


\* dict deletion: del d[k] for every k of ks
DictRemove(d, ks) == [x \in (DOMAIN d) \ ks |-> d[x]]

\* _create_alert_message: the status of the message is UP or DOWN by new_state.
CreateAlertMessage(state_change) ==
    [service_name |-> state_change.service_name,
     service_type |-> state_change.service_type,
     status |-> IF state_change.new_state THEN "UP" ELSE "DOWN",
     timestamp |-> state_change.timestamp]

\* alert_key = f"{message.service_name}:{message.status}"
AlertKey(message) == <<message.service_name, message.status>>

\* A plausible slip: the age test turned around.
ShouldDeduplicateInverted(history, message) ==
    /\ AlertKey(message) \in DOMAIN history
    /\ message.timestamp - history[AlertKey(message)] >= DuplicateThreshold

\* _should_deduplicate
ShouldDeduplicate(history, message) ==
    /\ AlertKey(message) \in DOMAIN history
    /\ message.timestamp - history[AlertKey(message)] < DuplicateThreshold

\* _cleanup_alert_history: the keys older than twice the threshold by the wall clock.
ExpiredKeys(history, current_time) ==
    {k \in DOMAIN history : current_time - history[k] > DuplicateThreshold * 2}

\* _record_alert: store the message's timestamp, then purge.
RecordAlert(history, message, current_time) ==
    LET h == DictSet(history, AlertKey(message), message.timestamp)
    IN DictRemove(h, ExpiredKeys(h, current_time))

add_alerter(a) ==
    /\ a \notin alerters
    /\ alerters' = alerters \cup {a}
    /\ UNCHANGED <<extVars, now, smVars, cbVars, schVars, alert_history, sent, am_flip,
                   last_emit, last_delivered, alerter_mode, am_results>>

remove_alerter(a) ==
    /\ a \in alerters
    /\ alerters' = alerters \ {a}
    /\ UNCHANGED <<extVars, now, smVars, cbVars, schVars, alert_history, sent, am_flip,
                   last_emit, last_delivered, alerter_mode, am_results>>

AlertKeys == Services \X {"UP", "DOWN"}

RECURSIVE SumOver(_, _)
SumOver(f, keys) ==
    IF keys = {} THEN 0
    ELSE LET k == CHOOSE x \in keys : TRUE IN f[k] + SumOver(f, keys \ {k})

\* The number of notifications handed to the alerters so far.
SentTotal(counts) == SumOver(counts, DOMAIN counts)

\* self.alerters in list order.
AlerterOrder == <<"n1", "n2">>

\* _send_to_alerter: the result dict of one alerter; an exception of the
\* alerter is caught and reported as a failure.
SendToAlerter(alerter, mode) ==
    [alerter |-> alerter, success |-> (mode = "ok"), error |-> (mode = "raise")]

RECURSIVE FanOutStopsAtRaise(_, _, _)
\* A plausible slip: the alerters awaited one after the other with no
\* try/except, so that the first one that raises ends the fan-out.
FanOutStopsAtRaise(k, registered, modes) ==
    IF k > Len(AlerterOrder) THEN EmptyBag
    ELSE IF AlerterOrder[k] \notin registered
         THEN FanOutStopsAtRaise(k + 1, registered, modes)
         ELSE IF modes[AlerterOrder[k]] = "raise" THEN EmptyBag
              ELSE SetToBag({SendToAlerter(AlerterOrder[k], modes[AlerterOrder[k]])})
                   (+) FanOutStopsAtRaise(k + 1, registered, modes)

RECURSIVE FanOut(_, _, _)
\* The fan-out of send_alert: one _send_to_alerter per registered alerter
\* from position k on, gathered with return_exceptions=True.
FanOut(k, registered, modes) ==
    IF k > Len(AlerterOrder) THEN EmptyBag
    ELSE IF AlerterOrder[k] \notin registered
         THEN FanOut(k + 1, registered, modes)
         ELSE SetToBag({SendToAlerter(AlerterOrder[k], modes[AlerterOrder[k]])})
              (+) FanOut(k + 1, registered, modes)

\* The body of AlertManager.send_alert. Deduplication and recording run
\* without an await in between; the fan-out hands the message to every
\* registered alerter. The call returns None however the alerters answer.
SendAlert(state_change) ==
    LET message == CreateAlertMessage(state_change)
    IN /\ am_flip' = 1 - am_flip
       /\ IF alerters = {} \/ ShouldDeduplicate(alert_history, message)
          THEN /\ am_results' = EmptyBag
               /\ UNCHANGED <<alert_history, sent, last_emit, last_delivered>>
          ELSE /\ alert_history' = RecordAlert(alert_history, message, now)
               /\ sent' = [sent EXCEPT ![AlertKey(message)] = @ + 1]
               /\ last_emit' = DictSet(last_emit, AlertKey(message),
                                       message.timestamp)
               /\ am_results' = FanOut(1, alerters, alerter_mode)
               /\ last_delivered' =
                    IF \E r \in BagToSet(am_results') : r.success
                    THEN DictSet(last_delivered, message.service_name, message.status)
                    ELSE last_delivered
       /\ UNCHANGED <<alerters, alerter_mode>>

\* AlertManager.send_alert called on its own.
send_alert(state_change) ==
    /\ SentTotal(sent) < MaxSent
    /\ SendAlert(state_change)
    /\ UNCHANGED <<extVars, now, smVars, cbVars, schVars>>

clear_alert_history ==
    /\ alert_history # <<>>
    /\ alert_history' = <<>>
    /\ last_emit' = <<>>
    /\ UNCHANGED <<extVars, now, smVars, cbVars, schVars, alerters, sent, am_flip, last_delivered,
                   alerter_mode, am_results>>

\* The dispatcher's clock advances by one minute.
AMTick ==
    /\ now < MaxMinute
    /\ now' = now + 1
    /\ UNCHANGED <<extVars, smVars, cbVars, amVars, schVars>>

\* ========================================================= AlertIntegrator

\* Filters registered at once.
MaxFilters == 2

\* What a filter does with a change: returns true, returns false, or raises.
FilterModes == {"allow", "deny", "raise"}

\* The hook lists an integrator is set up with: what each hook does when it
\* is invoked (it returns or it raises).
HookLists == {<<>>, <<"ok">>, <<"raise", "ok">>}

RECURSIVE ShouldAlertFailClosed(_, _)
\* A plausible slip: a filter that raises drops the change.
ShouldAlertFailClosed(filters, k) ==
    IF k > Len(filters) THEN <<TRUE, Len(filters)>>
    ELSE IF filters[k] \in {"deny", "raise"} THEN <<FALSE, k>>
         ELSE ShouldAlertFailClosed(filters, k + 1)

RECURSIVE ShouldAlert(_, _)
\* _should_alert from filter k on: <<the answer, the filters evaluated>>.
\* The first filter that returns false ends the chain with False; a filter
\* that raises is logged and the chain goes on.
ShouldAlert(filters, k) ==
    IF k > Len(filters) THEN <<TRUE, Len(filters)>>
    ELSE IF filters[k] = "deny" THEN <<FALSE, k>>
         ELSE ShouldAlert(filters, k + 1)

\* The post-dispatch hooks called with success: every hook once, in order;
\* a hook that raises is logged and the next one is called.
RunPostHooks(hooks, success) == [i \in 1..Len(hooks) |-> <<i, success>>]

\* The success flag trigger_alert hands to the post hooks after
\* alert_manager.send_alert returned: the literal True, whatever the
\* alerters answered (send_alert returns None and does not raise).
PostSuccess(results) == TRUE

\* The body of trigger_alert.
TriggerAlert(state_change) ==
    LET should == ShouldAlert(alert_filters, 1)
    IN /\ ai_change' = Some(state_change)
       /\ filter_calls' = should[2]
       /\ IF ~should[1]
          THEN /\ pre_calls' = 0
               /\ post_calls' = <<>>
               /\ UNCHANGED amVars
          ELSE /\ pre_calls' = Len(pre_alert_callbacks)
               /\ SendAlert(state_change)
               /\ post_calls' = RunPostHooks(post_alert_callbacks,
                                             PostSuccess(am_results'))
       /\ UNCHANGED <<alert_filters, pre_alert_callbacks, post_alert_callbacks>>

\* process_health_check_result: update_state, then trigger_alert for the
\* change it returned, if any.
process_health_check_result(result) ==
    /\ Len(processed) < MaxResults
    /\ UpdateState(result)
    /\ IF sm_ret' # None
       THEN TriggerAlert(sm_ret'[1])
       ELSE UNCHANGED <<amVars, aiVars>>
    /\ UNCHANGED <<now, cbVars, resVars, schVars, cfgVars, cnVars>>

add_alert_filter(mode) ==
    /\ Len(alert_filters) < MaxFilters
    /\ alert_filters' = Append(alert_filters, mode)
    /\ UNCHANGED <<now, smVars, cbVars, resVars, amVars, schVars, cfgVars, cnVars,
                   pre_alert_callbacks, post_alert_callbacks, ai_change,
                   filter_calls, pre_calls, post_calls>>

\* ======================================================== MonitorScheduler

\* max_concurrent_checks given to the constructor.
InitialMax == 2
\* Largest bound optimize_concurrent_checks is followed to (the code stops at 20).
MaxConcurrency == 3
\* Semaphore objects created between a start() and the end of its stop().
MaxSems == 2
\* Check tasks alive at once.
MaxTasks == 4
\* Last value of the scheduler's clock (seconds).
MaxSecond == 2

\* The services the scheduler is configured with when it is started, in the
\* order of the configured dict.
ServiceOrder == <<"a", "b">>

\* The check interval each of them is configured with, seconds.
CheckInterval(service_name) == 2

\* The resource samples given to optimize_concurrent_checks: <<cpu, memory>>.
Samples == {<<20, 40>>, <<50, 60>>, <<80, 80>>}

Max2(x, y) == IF x > y THEN x ELSE y
Min2(x, y) == IF x < y THEN x ELSE y

\* _should_check_service
ShouldCheckService(times, service_name, current_time) ==
    /\ service_name \in DOMAIN check_intervals
    /\ \/ service_name \notin DOMAIN times
       \/ current_time >= times[service_name] + check_intervals[service_name]

\* A task of _check_service. pc is where it is suspended: "waiting" for a slot
\* of semaphore object sem, in the "probe" (await checker.check_health()), or
\* awaiting the result "callback" or the error callback ("errback").
Task(service_name, pc, sem, start_time) ==
    [service |-> service_name, pc |-> pc, sem |-> sem, start_time |-> start_time]

\* The task holds a slot of its semaphore (it is inside "async with").
HoldsSlot(t) == t.pc \in {"probe", "callback", "errback"}

\* running_tasks with task t replaced by task u / with t discarded.
Replace(bag, t, u) == (bag (-) SetToBag({t})) (+) SetToBag({u})
Discard(bag, t) == bag (-) SetToBag({t})

\* semaphore.release() by a task that held a slot of semaphore k.
Release(values, k) == [values EXCEPT ![k] = @ + 1]

RECURSIVE SpawnDue(_, _, _, _, _)
\* The for loop of _schedule_loop over self.checkers from position k, with the
\* first step of every task it creates: "async with self.semaphore" takes a
\* slot while one of the `free` slots of semaphore object `sem` is left and
\* the probe is invoked, else the task waits on that object. The result is
\* <<the tasks created, the slots left>>.
SpawnDue(times, current_time, k, sem, free) ==
    IF k > Len(checkers) THEN <<EmptyBag, free>>
    ELSE IF ~ShouldCheckService(times, checkers[k], current_time)
         THEN SpawnDue(times, current_time, k + 1, sem, free)
         ELSE LET t == IF free > 0
                       THEN Task(checkers[k], "probe", sem, current_time)
                       ELSE Task(checkers[k], "waiting", sem, 0)
                  rest == SpawnDue(times, current_time, k + 1, sem,
                                   IF free > 0 THEN free - 1 ELSE free)
              IN <<SetToBag({t}) (+) rest[1], rest[2]>>

\* The services of the tasks in a bag.
BagServices(bag) == {t.service : t \in BagToSet(bag)}

\* start(): a fresh Semaphore(max_concurrent_checks), then the schedule loop.
start ==
    /\ ~is_running /\ ~stopping /\ loop = "idle"
    /\ Len(sems) < MaxSems
    /\ is_running' = TRUE
    /\ sems' = Append(sems, max_concurrent_checks)
    /\ semaphore' = Len(sems) + 1
    /\ loop' = "sleeping"
    /\ loop_wake' = now
    /\ UNCHANGED <<extVars, now, smVars, cbVars, amVars, stopping, max_concurrent_checks,
                   tasks, last_check_times, last_spawn>>

\* One iteration of _schedule_loop: a task for every due service, then
\* sleep(1). The tasks created run their first step before the sleep ends.
schedule_loop ==
    LET spawned == SpawnDue(last_check_times, now, 1, semaphore, sems[semaphore])
    IN /\ is_running /\ loop = "sleeping" /\ now >= loop_wake
       /\ BagCardinality(tasks) + BagCardinality(spawned[1]) <= MaxTasks
       /\ tasks' = tasks (+) spawned[1]
       /\ sems' = [sems EXCEPT ![semaphore] = spawned[2]]
       /\ loop_wake' = now + 1
       /\ last_spawn' = [s \in DOMAIN last_spawn \cup BagServices(spawned[1]) |->
                            IF s \in BagServices(spawned[1]) THEN now
                            ELSE last_spawn[s]]
       /\ UNCHANGED <<extVars, now, smVars, cbVars, amVars, is_running, stopping,
                      max_concurrent_checks, semaphore, last_check_times, loop>>

\* _schedule_loop wakes with is_running false and ends; start() returns.
schedule_loop_exit ==
    /\ ~is_running /\ loop = "sleeping" /\ now >= loop_wake
    /\ loop' = "idle"
    /\ UNCHANGED <<extVars, now, smVars, cbVars, amVars, is_running, stopping,
                   max_concurrent_checks, semaphore, sems, tasks, last_check_times, last_spawn,
                   loop_wake>>

\* self.checkers.get(service_name) finds a checker.
HasChecker(service_name) == \E k \in DOMAIN checkers : checkers[k] = service_name

\* A waiting task gets a slot of the semaphore it waits on and invokes the
\* probe; when self.checkers has no checker for its service any more it logs
\* an error and returns, which gives the slot back.
check_service_acquire(t) ==
    /\ ~stopping
    /\ BagIn(t, tasks) /\ t.pc = "waiting"
    /\ sems[t.sem] > 0
    /\ IF HasChecker(t.service)
       THEN /\ sems' = [sems EXCEPT ![t.sem] = @ - 1]
            /\ tasks' = Replace(tasks, t, Task(t.service, "probe", t.sem, now))
       ELSE /\ sems' = sems
            /\ tasks' = Discard(tasks, t)
    /\ UNCHANGED <<extVars, now, smVars, cbVars, amVars, is_running, stopping,
                   max_concurrent_checks, semaphore, last_check_times, last_spawn, loop, loop_wake>>

\* checker.check_health() returned a result: last_check_times is set to the
\* start time and the result callback is awaited, the slot still held.
probe_return(t) ==
    /\ ~stopping
    /\ BagIn(t, tasks) /\ t.pc = "probe"
    /\ last_check_times' = DictSet(last_check_times, t.service, t.start_time)
    /\ tasks' = Replace(tasks, t, Task(t.service, "callback", t.sem, 0))
    /\ UNCHANGED <<extVars, now, smVars, cbVars, amVars, is_running, stopping,
                   max_concurrent_checks, semaphore, sems, last_spawn, loop, loop_wake>>

\* checker.check_health() raised: the error callback is awaited, the slot still held.
probe_raise(t) ==
    /\ ~stopping
    /\ BagIn(t, tasks) /\ t.pc = "probe"
    /\ tasks' = Replace(tasks, t, Task(t.service, "errback", t.sem, 0))
    /\ UNCHANGED <<extVars, now, smVars, cbVars, amVars, is_running, stopping,
                   max_concurrent_checks, semaphore, sems, last_check_times, last_spawn, loop,
                   loop_wake>>

\* The awaited callback is over: the slot is released and the task is done
\* (its done callback discards it from running_tasks).
check_service_end(t) ==
    /\ ~stopping
    /\ BagIn(t, tasks) /\ t.pc \in {"callback", "errback"}
    /\ sems' = Release(sems, t.sem)
    /\ tasks' = Discard(tasks, t)
    /\ UNCHANGED <<extVars, now, smVars, cbVars, amVars, is_running, stopping,
                   max_concurrent_checks, semaphore, last_check_times, last_spawn, loop, loop_wake>>

\* stop(), first half: is_running cleared and every task cancelled.
stop ==
    /\ is_running
    /\ is_running' = FALSE
    /\ stopping' = TRUE
    /\ UNCHANGED <<extVars, now, smVars, cbVars, amVars, max_concurrent_checks, semaphore,
                   sems, tasks, last_check_times, last_spawn, loop, loop_wake>>

\* A plausible slip: stop() without task.cancel(), the tasks being left to
\* finish: a task whose probe is running records its check and goes on to
\* the result callback.
check_service_left_to_finish(t) ==
    /\ stopping
    /\ BagIn(t, tasks)
    /\ IF t.pc = "probe"
       THEN /\ last_check_times' = DictSet(last_check_times, t.service, t.start_time)
            /\ tasks' = Replace(tasks, t, Task(t.service, "callback", t.sem, 0))
            /\ sems' = sems
       ELSE /\ sems' = IF HoldsSlot(t) THEN Release(sems, t.sem) ELSE sems
            /\ tasks' = Discard(tasks, t)
            /\ last_check_times' = last_check_times
    /\ UNCHANGED <<extVars, now, smVars, cbVars, amVars, is_running, stopping,
                   max_concurrent_checks, semaphore, last_spawn, loop, loop_wake>>

\* A cancelled task unwinds: CancelledError leaves "async with", which gives
\* the slot back if the task held one; no callback runs.
check_service_cancelled(t) ==
    /\ stopping
    /\ BagIn(t, tasks)
    /\ sems' = IF HoldsSlot(t) THEN Release(sems, t.sem) ELSE sems
    /\ tasks' = Discard(tasks, t)
    /\ UNCHANGED <<extVars, now, smVars, cbVars, amVars, is_running, stopping,
                   max_concurrent_checks, semaphore, last_check_times, last_spawn, loop, loop_wake>>

\* A plausible slip: stop() without the gather: it returns while the
\* cancelled tasks have not unwound yet.
stop_end_without_gather ==
    /\ stopping
    /\ stopping' = FALSE
    /\ semaphore' = 0
    /\ UNCHANGED <<extVars, now, smVars, cbVars, amVars, is_running,
                   max_concurrent_checks, sems, tasks, last_check_times, last_spawn, loop, loop_wake>>

\* stop(), second half: gather() is over, running_tasks cleared, semaphore
\* dropped. No task is left, so no Semaphore object is referenced any more.
stop_end ==
    /\ stopping /\ tasks = EmptyBag
    /\ stopping' = FALSE
    /\ semaphore' = 0
    /\ sems' = <<>>
    /\ UNCHANGED <<extVars, now, smVars, cbVars, amVars, is_running, max_concurrent_checks,
                   tasks, last_check_times, last_spawn, loop, loop_wake>>

\* The bound optimize_concurrent_checks computes from a sample.
NewConcurrent(limit, cpu_percent, memory_percent) ==
    IF cpu_percent > 70 \/ memory_percent > 75 THEN Max2(1, limit - 2)
    ELSE IF cpu_percent < 30 /\ memory_percent < 50 THEN Min2(20, limit + 1)
    ELSE limit

\* optimize_concurrent_checks with the sampler's current metrics: a changed
\* bound is stored and, when a semaphore exists, a new Semaphore replaces it.
optimize_concurrent_checks(sample) ==
    LET new_concurrent == NewConcurrent(max_concurrent_checks, sample[1], sample[2])
    IN /\ new_concurrent # max_concurrent_checks
       /\ new_concurrent <= MaxConcurrency
       /\ max_concurrent_checks' = new_concurrent
       /\ IF semaphore # 0
          THEN /\ Len(sems) < MaxSems
               /\ sems' = Append(sems, new_concurrent)
               /\ semaphore' = Len(sems) + 1
          ELSE UNCHANGED <<sems, semaphore>>
       /\ UNCHANGED <<extVars, now, smVars, cbVars, amVars, is_running, stopping, tasks,
                      last_check_times, last_spawn, loop, loop_wake>>

\* The scheduler's clock advances by one second.
SchTick ==
    /\ now < MaxSecond
    /\ now' = now + 1
    /\ UNCHANGED <<extVars, smVars, cbVars, amVars, schVars>>

\* ------------------------------------------------------ configure_services

\* The check_interval values a service entry may carry: absent (None), or a
\* value that is an int or not (a string, a float).
IntervalInputs ==
    {None, Some([is_int |-> TRUE, value |-> 2]), Some([is_int |-> TRUE, value |-> 0]),
     Some([is_int |-> FALSE, value |-> 2])}

\* global_config.get('check_interval', 30)
DefaultIntervals == {[is_int |-> TRUE, value |-> 3]}

\* One entry of services_config: creatable says whether
\* health_checker_factory.create_checker accepts it (when it does not, the
\* interval of the entry is never read).
ServiceEntries ==
    {e \in [name : Services, creatable : BOOLEAN, check_interval : IntervalInputs] :
        ~e.creatable => e.check_interval = None}

\* services_config: a dict, so no two entries carry the same name.
ServiceConfigs ==
    {<<>>} \cup {<<e>> : e \in ServiceEntries}
           \cup {c \in ServiceEntries \X ServiceEntries : c[1].name # c[2].name}

\* not isinstance(check_interval, int) or check_interval <= 0
InvalidInterval(check_interval) ==
    ~check_interval.is_int \/ check_interval.value <= 0

RECURSIVE ConfigureFrom(_, _, _, _, _)
\* The for loop of configure_services from entry k on, checkers and
\* check_intervals being chk and ivl so far: the checker is installed, then
\* the interval is validated and installed; the first exception is re-raised.
ConfigureFrom(config, default_interval, k, chk, ivl) ==
    IF k > Len(config) THEN [checkers |-> chk, check_intervals |-> ivl, raised |-> FALSE]
    ELSE LET e == config[k]
             check_interval == IF e.check_interval = None THEN default_interval
                               ELSE e.check_interval[1]
         IN IF ~e.creatable
            THEN [checkers |-> chk, check_intervals |-> ivl, raised |-> TRUE]
            ELSE IF InvalidInterval(check_interval)
                 THEN [checkers |-> Append(chk, e.name), check_intervals |-> ivl,
                       raised |-> TRUE]
                 ELSE ConfigureFrom(config, default_interval, k + 1,
                                    Append(chk, e.name),
                                    DictSet(ivl, e.name, check_interval.value))

\* configure_services: the three dicts are cleared, then the loop runs.
configure_services(services_config, default_interval) ==
    LET r == ConfigureFrom(services_config, default_interval, 1, <<>>, <<>>)
    IN /\ checkers' = r.checkers
       /\ check_intervals' = r.check_intervals
       /\ last_check_times' = <<>>
       /\ cfg_ret' = IF r.raised THEN "raised" ELSE "ok"
       /\ UNCHANGED <<now, smVars, cbVars, resVars, amVars, cnVars, aiVars, on_check_error,
                      is_running, stopping, max_concurrent_checks, semaphore, sems,
                      tasks, last_spawn, loop, loop_wake>>

\* -------------------------------------------------- check_all_services_now

\* The elements of a sequence.
Range(seq) == {seq[i] : i \in 1..Len(seq)}

\* check_all_services_now: one check_service_now task per configured
\* service, each run up to its probe (checker.check_health() is awaited with
\* no semaphore), then the gather is awaited.
check_all_services_now ==
    /\ cn_state = "idle"
    /\ cn_state' = "gathering"
    /\ cn_names' = checkers
    /\ cn_tasks' = [s \in Range(checkers) |-> "probe"]
    /\ cn_task_results' = <<>>
    /\ cn_outcomes' = <<>>
    /\ cn_errors' = [s \in Range(checkers) |-> 0]
    /\ cn_results' = <<>>
    /\ UNCHANGED <<now, smVars, cbVars, resVars, amVars, schVars, cfgVars, aiVars>>

\* The probe of a check_service_now task returned a result:
\* last_check_times is set to the current time and the task returns the result.
now_probe_return(s, healthy) ==
    LET result == HealthCheckResult(s, healthy, now)
    IN /\ cn_state = "gathering"
       /\ s \in DOMAIN cn_tasks /\ cn_tasks[s] = "probe"
       /\ last_check_times' = DictSet(last_check_times, s, now)
       /\ cn_tasks' = [cn_tasks EXCEPT ![s] = "done"]
       /\ cn_task_results' = DictSet(cn_task_results, s, Some(result))
       /\ cn_outcomes' = DictSet(cn_outcomes, s, Some(result))
       /\ UNCHANGED <<now, smVars, cbVars, resVars, amVars, cfgVars, aiVars, cn_state, cn_names,
                      cn_results, cn_errors, is_running, stopping,
                      max_concurrent_checks, semaphore, sems, tasks, last_spawn, loop,
                      loop_wake>>

\* A plausible slip: check_service_now without its try/except; the exception
\* ends the task and the gather turns it into None, no callback being invoked.
now_probe_raise_uncaught(s) ==
    /\ cn_state = "gathering"
    /\ s \in DOMAIN cn_tasks /\ cn_tasks[s] = "probe"
    /\ cn_outcomes' = DictSet(cn_outcomes, s, None)
    /\ cn_tasks' = [cn_tasks EXCEPT ![s] = "done"]
    /\ cn_task_results' = DictSet(cn_task_results, s, None)
    /\ UNCHANGED <<now, smVars, cbVars, resVars, amVars, schVars, cfgVars, aiVars, cn_state,
                   cn_names, cn_results, cn_errors>>

\* The probe of a check_service_now task raised: the exception is caught and
\* the error callback, when one is registered, is invoked and awaited.
now_probe_raise(s) ==
    /\ cn_state = "gathering"
    /\ s \in DOMAIN cn_tasks /\ cn_tasks[s] = "probe"
    /\ cn_outcomes' = DictSet(cn_outcomes, s, None)
    /\ IF on_check_error
       THEN /\ cn_errors' = [cn_errors EXCEPT ![s] = @ + 1]
            /\ cn_tasks' = [cn_tasks EXCEPT ![s] = "errback"]
            /\ UNCHANGED cn_task_results
       ELSE /\ cn_tasks' = [cn_tasks EXCEPT ![s] = "done"]
            /\ cn_task_results' = DictSet(cn_task_results, s, None)
            /\ UNCHANGED cn_errors
    /\ UNCHANGED <<now, smVars, cbVars, resVars, amVars, schVars, cfgVars, aiVars, cn_state,
                   cn_names, cn_results>>

\* The error callback is over, whether it returned or raised (its exception
\* is caught and logged): the task returns None.
now_errback_end(s) ==
    /\ cn_state = "gathering"
    /\ s \in DOMAIN cn_tasks /\ cn_tasks[s] = "errback"
    /\ cn_tasks' = [cn_tasks EXCEPT ![s] = "done"]
    /\ cn_task_results' = DictSet(cn_task_results, s, None)
    /\ UNCHANGED <<now, smVars, cbVars, resVars, amVars, schVars, cfgVars, aiVars, cn_state,
                   cn_names, cn_results, cn_outcomes, cn_errors>>

\* The gather is over: results[service_name] is what the task of each
\* service returned, and the dict is returned.
check_all_services_now_return ==
    /\ cn_state = "gathering"
    /\ \A s \in DOMAIN cn_tasks : cn_tasks[s] = "done"
    /\ cn_results' = [s \in Range(cn_names) |-> cn_task_results[s]]
    /\ cn_state' = "idle"
    /\ cn_names' = <<>>
    /\ cn_tasks' = <<>>
    /\ cn_task_results' = <<>>
    /\ cn_outcomes' = <<>>
    /\ cn_errors' = <<>>
    /\ UNCHANGED <<now, smVars, cbVars, resVars, amVars, schVars, cfgVars, aiVars>>

\* ========================================================== retry_on_error

\* max_attempts of the modelled retry_on_error decorator.
RetryMaxAttempts == 4
\* RetryConfig defaults: base_delay, max_delay, backoff_multiplier (seconds).
RetryBaseDelay == 1
RetryMaxDelay == 60
BackoffMultiplier == 2

\* What one invocation of the wrapped operation does: it returns, or raises
\* an error of that type.
OperationOutcomes == {"ok", "ConnectionError", "ValueError"}

\* The error with_circuit_breaker raises when the breaker rejects the call:
\* CheckerError(SERVICE_UNAVAILABLE, recoverable=False).
CircuitOpenError == "CheckerError"

\* The retryable_errors lists the decorator is given; the empty one stands for
\* None as well (both are falsy).
RetryableErrorLists == {{}, {"ConnectionError"}, {"Exception"}}

\* isinstance(error, error_type), over the types above: ConnectionError is an
\* OSError, CheckerError a HealthMonitorError, all of them Exceptions.
IsInstance(error, error_type) ==
    \/ error_type = "Exception"
    \/ error = error_type
    \/ error = "ConnectionError" /\ error_type = "OSError"
    \/ error = "CheckerError" /\ error_type = "HealthMonitorError"

\* error.recoverable of a HealthMonitorError: the only one raised here is the
\* breaker's, which is built with recoverable=False.
Recoverable(error) == error # CircuitOpenError

\* should_retry without its attempt test: whether the error is of a kind that
\* is retried.
RetryableError(error) ==
    IF retryable_errors # {}
    THEN \E error_type \in retryable_errors : IsInstance(error, error_type)
    ELSE IF IsInstance(error, "HealthMonitorError") THEN Recoverable(error)
         ELSE \E error_type \in {"ConnectionError", "TimeoutError", "OSError"} :
                  IsInstance(error, error_type)

\* RetryHandler.should_retry
ShouldRetry(error, attempt) ==
    IF attempt >= RetryMaxAttempts THEN FALSE ELSE RetryableError(error)

RECURSIVE Pow(_, _)
Pow(x, n) == IF n = 0 THEN 1 ELSE x * Pow(x, n - 1)

\* RetryHandler.calculate_delay before the jitter (EXPONENTIAL_BACKOFF, the
\* decorator's default strategy).
CalculateDelay(attempt) ==
    Min2(RetryBaseDelay * Pow(BackoffMultiplier, attempt - 1), RetryMaxDelay)

\* The jitter multiplies the delay by a factor drawn from [0.5, 1): the whole
\* seconds the sleep is certain to last.
JitterFloor(delay) == delay \div 2

\* A plausible slip: the decorators applied in the other order, the breaker
\* being asked once per call and not by the attempts.
WrappedCallUnguarded(cb, current_time, outcome) ==
    [admitted |-> TRUE, result |-> outcome,
     breaker |-> IF outcome = "ok" THEN RecordSuccess(cb)
                 ELSE RecordFailure(cb, current_time)]

\* One call of the function with_circuit_breaker returns (the sync wrapper):
\* rejected with the circuit-open error, or the operation invoked and its
\* outcome recorded on the breaker.
WrappedCall(cb, current_time, outcome) ==
    LET r == ShouldAllowRequest(cb, current_time)
    IN IF ~r[1]
       THEN [admitted |-> FALSE, result |-> CircuitOpenError, breaker |-> r[2]]
       ELSE IF outcome = "ok"
            THEN [admitted |-> TRUE, result |-> "ok", breaker |-> RecordSuccess(r[2])]
            ELSE [admitted |-> TRUE, result |-> outcome,
                  breaker |-> RecordFailure(r[2], current_time)]

\* A plausible slip: the should_retry test left out of the except branch.
AfterFailureAlwaysRetries(error, attempt) ==
    IF attempt < RetryMaxAttempts THEN "sleep" ELSE "raised"

\* The except branch of the retry loop: where the wrapper is after attempt
\* `attempt` failed with `error`. The last attempt falls out of the loop to
\* "raise last_error".
AfterFailure(error, attempt) ==
    IF ~ShouldRetry(error, attempt) THEN "raised"
    ELSE IF attempt < RetryMaxAttempts THEN "sleep" ELSE "raised"

\* One iteration of the retry loop: the wrapped function is called, and the
\* wrapper returns its result, re-raises its error or starts the backoff sleep.
RetryAttempt(attempt, log, outcome) ==
    LET w == WrappedCall(breaker, now, outcome)
        entry == [before |-> breaker.state,
                  recovered |-> now - breaker.last_failure_time >= RecoveryTimeout,
                  admitted |-> w.admitted, result |-> w.result]
        next == AfterFailure(w.result, attempt)
    IN /\ breaker' = w.breaker
       /\ rt_attempt' = attempt
       /\ rt_log' = Append(log, entry)
       /\ IF w.result = "ok"
          THEN /\ rt_pc' = "returned"
               /\ rt_error' = "none"
               /\ rt_wake' = 0
          ELSE /\ rt_pc' = next
               /\ rt_error' = w.result
               /\ rt_wake' = IF next = "sleep"
                             THEN now + JitterFloor(CalculateDelay(attempt))
                             ELSE 0
       /\ UNCHANGED <<now, smVars, amVars, schVars, cfgVars, cnVars, aiVars,
                      cb_inflight, cb_op, cb_ret, cb_flip, cb_fail_run,
                      cb_ho_successes, cb_ho_admitted, retryable_errors, fbVars, task_exceptions,
                      icVars, tplVars, opt_sample, pfVars>>

\* A call of the decorated function, up to the end of its first attempt.
retry_call(outcome) ==
    /\ rt_pc \in {"idle", "returned", "raised"}
    /\ RetryAttempt(1, <<>>, outcome)

\* The backoff sleep is over: the next attempt.
retry_wake(outcome) ==
    /\ rt_pc = "sleep" /\ now >= rt_wake
    /\ RetryAttempt(rt_attempt + 1, rt_log, outcome)

\* ======================================== ResilienceManager and with_fallback

\* max_failures and failure_window (seconds) of the modelled with_fallback.
MaxFailures == 2
FailureWindow == 2
\* Last value of the resilience manager's clock (time.time(), seconds).
MaxFallbackClock == 3
\* Failure timestamps kept for the key at once.
MaxFailureLog == 3

\* The key the decorator is registered under.
FallbackKey == "svc"

\* ServiceState
HEALTHY == "healthy"
DEGRADED == "degraded"
UNHEALTHY == "unhealthy"
UNKNOWN == "unknown"

\* What the decorator is given: a fallback_value only, a fallback_function as
\* well, or a fallback_function that raises.
FallbackModes == {"value", "function", "function_raises"}

\* ResilienceManager.get_service_state
GetServiceState(states, service_name) ==
    IF service_name \in DOMAIN states THEN states[service_name] ELSE UNKNOWN

\* failure_counts.get(service_name, [])
FailuresOf(counts, service_name) ==
    IF service_name \in DOMAIN counts THEN counts[service_name] ELSE <<>>

\* ResilienceManager.record_failure (a fallback config is registered for the
\* key): <<service_states, failure_counts>> afterwards.
ManagerRecordFailure(states, counts, service_name, current_time) ==
    LET appended == Append(FailuresOf(counts, service_name), current_time)
        window_start == current_time - FailureWindow
        kept == SelectSeq(appended, LAMBDA t : t >= window_start)
    IN <<IF Len(kept) >= MaxFailures
         THEN DictSet(states, service_name, DEGRADED) ELSE states,
         DictSet(counts, service_name, kept)>>

\* A plausible slip: DEGRADED left out of the states that use the fallback.
ShouldUseFallbackUnhealthyOnly(states, service_name) ==
    GetServiceState(states, service_name) = UNHEALTHY

\* ResilienceManager.should_use_fallback (the config is enabled).
ShouldUseFallback(states, service_name) ==
    GetServiceState(states, service_name) \in {DEGRADED, UNHEALTHY}

\* ResilienceManager.get_fallback_value: the function's result, or the value
\* when there is no function or the function raises.
GetFallbackValue ==
    IF fallback_mode = "function" THEN "fallback_function_result"
    ELSE "fallback_value"

\* A call of the function with_fallback returns (the sync wrapper); outcome is
\* what the wrapped operation does when it is invoked. fb_ret.value is what
\* the caller gets, "raise" when the operation's error is re-raised.
with_fallback(outcome) ==
    LET before == GetServiceState(service_states, FallbackKey)
        r == ManagerRecordFailure(service_states, failure_counts, FallbackKey, now)
        ret(invoked, value) ==
            [flip |-> 1 - fb_ret.flip, before |-> before, outcome |-> outcome,
             invoked |-> invoked, value |-> value]
    IN /\ IF ShouldUseFallback(service_states, FallbackKey)
          THEN /\ fb_ret' = ret(FALSE, GetFallbackValue)
               /\ UNCHANGED <<service_states, failure_counts>>
          ELSE IF outcome = "ok"
               THEN /\ service_states' = DictSet(service_states, FallbackKey, HEALTHY)
                    /\ fb_ret' = ret(TRUE, "result")
                    /\ UNCHANGED failure_counts
               ELSE /\ Len(FailuresOf(failure_counts, FallbackKey)) < MaxFailureLog
                    /\ service_states' = r[1]
                    /\ failure_counts' = r[2]
                    /\ fb_ret' = ret(TRUE, IF ShouldUseFallback(r[1], FallbackKey)
                                           THEN GetFallbackValue ELSE "raise")
       /\ UNCHANGED <<now, smVars, cbVars, amVars, schVars, cfgVars, cnVars, aiVars,
                      rtVars, fallback_mode, task_exceptions, icVars, tplVars,
                      opt_sample, pfVars>>

\* ResilienceManager.update_service_state, called from outside the decorator.
update_service_state(state) ==
    /\ service_states' = DictSet(service_states, FallbackKey, state)
    /\ UNCHANGED <<now, smVars, cbVars, amVars, schVars, cfgVars, cnVars, aiVars,
                   rtVars, fallback_mode, failure_counts, fb_ret, task_exceptions,
                   icVars, tplVars, opt_sample, pfVars>>

\* time.time() advances by one second.
FBTick ==
    /\ now < MaxFallbackClock
    /\ now' = now + 1
    /\ UNCHANGED <<extVars, smVars, cbVars, amVars, schVars>>

\* ------------------------------------------------- _check_service callbacks

\* The awaited result callback raised: the exception is caught by the
\* "except Exception" of _check_service, which awaits the error callback when
\* one is registered; with none the task is done and the slot released.
callback_raise(t) ==
    /\ ~stopping
    /\ BagIn(t, tasks) /\ t.pc = "callback"
    /\ IF on_check_error
       THEN /\ tasks' = Replace(tasks, t, Task(t.service, "errback", t.sem, 0))
            /\ UNCHANGED sems
       ELSE /\ tasks' = Discard(tasks, t)
            /\ sems' = Release(sems, t.sem)
    /\ UNCHANGED <<extVars, now, smVars, cbVars, amVars, is_running, stopping,
                   max_concurrent_checks, semaphore, last_check_times, last_spawn, loop, loop_wake>>

\* The awaited error callback raised: nothing catches the exception, it
\* leaves "async with" (the slot is released) and ends the task.
errback_raise(t) ==
    /\ ~stopping
    /\ BagIn(t, tasks) /\ t.pc = "errback"
    /\ sems' = Release(sems, t.sem)
    /\ tasks' = Discard(tasks, t)
    /\ task_exceptions' = task_exceptions \cup {t.service}
    /\ UNCHANGED <<now, smVars, cbVars, amVars, cfgVars, cnVars, aiVars, rtVars,
                   fbVars, icVars, tplVars, opt_sample, pfVars, is_running, stopping,
                   max_concurrent_checks, semaphore, last_check_times, last_spawn, loop, loop_wake>>

\* ------------------------------------ AlertIntegrator._initialize_alerters

\* The 'type' values of an alert config entry.
AlerterTypes == {"http", "HTTP", "email"}

\* str.lower()
Lower(s) == IF s = "HTTP" THEN "http" ELSE s

\* One entry of alert_configs: valid says whether HTTPAlerter.validate_config
\* accepts it.
AlertConfigEntries == [name : Alerters, type : AlerterTypes, valid : BOOLEAN]

\* alert_configs: at most one entry per name.
AlertConfigs ==
    {<<>>} \cup {<<e>> : e \in AlertConfigEntries}
           \cup {c \in AlertConfigEntries \X AlertConfigEntries : c[1].name # c[2].name}

RECURSIVE InitializeAlerters(_, _, _)
\* _initialize_alerters from entry k on, alert_manager.alerters being
\* `installed` so far: an 'http' entry gets an HTTPAlerter, whose constructor
\* raises AlertConfigError on an invalid config (caught and logged by the
\* loop); any other type is logged and skipped.
InitializeAlerters(alert_configs, k, installed) ==
    IF k > Len(alert_configs) THEN installed
    ELSE LET config == alert_configs[k]
         IN IF Lower(config.type) = "http" /\ config.valid
            THEN InitializeAlerters(alert_configs, k + 1, installed \cup {config.name})
            ELSE InitializeAlerters(alert_configs, k + 1, installed)

\* AlertIntegrator(state_manager, alert_configs): a new AlertManager, then
\* _initialize_alerters.
AlertIntegrator_init(alert_configs) ==
    /\ alerters' = InitializeAlerters(alert_configs, 1, {})
    /\ alert_history' = <<>>
    /\ alert_filters' = <<>>
    /\ pre_alert_callbacks' = <<>>
    /\ post_alert_callbacks' = <<>>
    /\ ic_configs' = alert_configs
    /\ ic_ret' = [op |-> "init", raised |-> FALSE]
    /\ UNCHANGED <<now, smVars, cbVars, schVars, cfgVars, cnVars, rtVars, fbVars,
                   task_exceptions, tplVars, opt_sample, pfVars, sent, am_flip, last_emit, last_delivered,
                   alerter_mode, am_results, ai_change, filter_calls, pre_calls,
                   post_calls>>

\* reload_alert_config: alerters.clear(), then _initialize_alerters; nothing
\* in the try block raises, so AlertConfigError is never raised.
reload_alert_config(alert_configs) ==
    /\ alerters' = InitializeAlerters(alert_configs, 1, {})
    /\ ic_configs' = alert_configs
    /\ ic_ret' = [op |-> "reload", raised |-> FALSE]
    /\ UNCHANGED <<now, smVars, cbVars, schVars, cfgVars, cnVars, aiVars, rtVars,
                   fbVars, task_exceptions, tplVars, opt_sample, pfVars, alert_history, sent,
                   am_flip, last_emit, last_delivered, alerter_mode, am_results>>

\* ------------------------------------------- AlertManager.render_template

\* Longest template followed, in tokens.
MaxTemplateLen == 3

\* The variable names a template refers to: two that every message defines,
\* one defined when the message's metadata has the key "k", one never defined.
TemplateNames == {"service_name", "status", "metadata_k", "nonexistent"}

\* A template string is a sequence of tokens: literal text, or a placeholder
\* {{name}}.
Text(s) == [kind |-> "text", value |-> s]
Placeholder(name) == [kind |-> "placeholder", value |-> name]
TemplateTokens == {Text("is")} \cup {Placeholder(n) : n \in TemplateNames}

Templates ==
    UNION {[1..n -> TemplateTokens] : n \in 0..MaxTemplateLen}

\* The messages rendered: service_name and status set, metadata with or
\* without the key "k".
Messages ==
    [service_name : {"a"}, status : {"DOWN"}, metadata : {<<>>, [k |-> "v"]}]

\* template_vars of render_template (the names a template can refer to).
TemplateVars(message) ==
    LET base == [n \in {"service_name", "status"} |->
                     IF n = "service_name" THEN message.service_name
                     ELSE message.status]
    IN IF "k" \in DOMAIN message.metadata
       THEN DictSet(base, "metadata_k", message.metadata["k"])
       ELSE base

\* rendered.replace('{{key}}', value) for every key of template_vars: a
\* placeholder of a known key becomes its value, anything else is left as it is.
Render(template_str, template_vars) ==
    [i \in 1..Len(template_str) |->
        IF template_str[i].kind = "placeholder"
           /\ template_str[i].value \in DOMAIN template_vars
        THEN Text(template_vars[template_str[i].value])
        ELSE template_str[i]]

\* render_template: str.replace raises nothing, so the except branch that
\* raises AlertConfigError is never taken.
render_template(template_str, message) ==
    /\ tpl_template' = template_str
    /\ tpl_message' = Some(message)
    /\ tpl_ret' = [raised |-> FALSE,
                   rendered |-> Render(template_str, TemplateVars(message))]
    /\ UNCHANGED <<now, smVars, cbVars, amVars, schVars, cfgVars, cnVars, aiVars,
                   rtVars, fbVars, task_exceptions, icVars, opt_sample, pfVars>>

\* ------------------------------ optimize_concurrent_checks, not started

\* Largest max_concurrent_checks the scheduler is constructed with.
MaxInitialLimit == 24

\* The resource samples followed here: <<cpu, memory>>, on both sides of
\* every threshold.
OptSamples ==
    {<<20, 40>>, <<29, 49>>, <<30, 40>>, <<20, 50>>, <<50, 60>>, <<70, 75>>,
     <<71, 40>>, <<20, 76>>, <<80, 80>>}

\* optimize_concurrent_checks on a scheduler that was not started (semaphore
\* is None): only max_concurrent_checks changes.
optimize_concurrent_checks_idle(sample) ==
    LET new_concurrent == NewConcurrent(max_concurrent_checks, sample[1], sample[2])
    IN /\ semaphore = 0
       /\ new_concurrent # max_concurrent_checks
       /\ max_concurrent_checks' = new_concurrent
       /\ opt_sample' = Some([before |-> max_concurrent_checks, sample |-> sample])
       /\ UNCHANGED <<now, smVars, cbVars, amVars, cfgVars, cnVars, aiVars, rtVars,
                      fbVars, task_exceptions, icVars, tplVars, pfVars, is_running, stopping,
                      semaphore, sems, tasks, last_check_times, last_spawn, loop, loop_wake>>

\* =================================================== PartialFailureHandler

\* Results recorded by one handler.
MaxBatch == 3

\* A plausible slip: a tolerant handler continues whatever was recorded.
ShouldContinueTolerantAlways(tolerate, failed, successful) ==
    IF ~tolerate THEN Len(failed) = 0 ELSE TRUE

\* The value of should_continue().
ShouldContinue(tolerate, failed, successful) ==
    IF ~tolerate THEN Len(failed) = 0
    ELSE Len(successful) > 0 \/ Len(failed) = 0

\* PartialFailureHandler(continue_on_partial_failure): both lists empty.
PartialFailureHandler_init(tolerate) ==
    /\ continue_on_partial_failure' = tolerate
    /\ failed_services' = <<>>
    /\ successful_services' = <<>>
    /\ pf_ret' = None
    /\ UNCHANGED <<now, smVars, cbVars, amVars, schVars, cfgVars, cnVars, aiVars,
                   rtVars, fbVars, task_exceptions, icVars, tplVars, opt_sample>>

\* handle_service_result: the service is appended to one of the two lists.
handle_service_result(service_name, success) ==
    /\ Len(failed_services) + Len(successful_services) < MaxBatch
    /\ IF success
       THEN /\ successful_services' = Append(successful_services, service_name)
            /\ UNCHANGED failed_services
       ELSE /\ failed_services' = Append(failed_services, service_name)
            /\ UNCHANGED successful_services
    /\ pf_ret' = None
    /\ UNCHANGED <<now, smVars, cbVars, amVars, schVars, cfgVars, cnVars, aiVars,
                   rtVars, fbVars, task_exceptions, icVars, tplVars, opt_sample,
                   continue_on_partial_failure>>

\* should_continue(): reads the handler, changes nothing of it.
should_continue ==
    /\ pf_ret' = Some(ShouldContinue(continue_on_partial_failure, failed_services,
                                     successful_services))
    /\ UNCHANGED <<now, smVars, cbVars, amVars, schVars, cfgVars, cnVars, aiVars,
                   rtVars, fbVars, task_exceptions, icVars, tplVars, opt_sample,
                   continue_on_partial_failure, failed_services, successful_services>>

\* ========================================================== specifications

SMInitVars ==
    /\ current_states = <<>>
    /\ state_history = <<>>
    /\ state_changes = <<>>
    /\ file = None
    /\ sm_ret = None
    /\ processed = <<>>

CBInitVars ==
    /\ breaker = NewCircuitBreaker
    /\ cb_inflight = 0
    /\ cb_op = "init"
    /\ cb_ret = TRUE
    /\ cb_flip = 0
    /\ cb_fail_run = <<CLOSED, 0>>
    /\ cb_ho_successes = 0
    /\ cb_ho_admitted = 0

AMInitVars ==
    /\ alerters = {}
    /\ alert_history = <<>>
    /\ sent = [k \in AlertKeys |-> 0]
    /\ am_flip = 0
    /\ last_emit = <<>>
    /\ last_delivered = <<>>
    /\ am_results = EmptyBag
    /\ alerter_mode = [a \in Alerters |-> "ok"]

SchInitVars ==
    /\ is_running = FALSE
    /\ stopping = FALSE
    /\ max_concurrent_checks = InitialMax
    /\ semaphore = 0
    /\ sems = <<>>
    /\ tasks = EmptyBag
    /\ last_check_times = <<>>
    /\ last_spawn = <<>>
    /\ loop = "idle"
    /\ loop_wake = 0

\* The scheduler configured with ServiceOrder, an error callback registered.
CfgInitVars ==
    /\ checkers = ServiceOrder
    /\ check_intervals = [s \in Services |-> CheckInterval(s)]
    /\ on_check_error = TRUE
    /\ cfg_ret = "none"

CNInitVars ==
    /\ cn_state = "idle"
    /\ cn_names = <<>>
    /\ cn_tasks = <<>>
    /\ cn_task_results = <<>>
    /\ cn_results = <<>>
    /\ cn_outcomes = <<>>
    /\ cn_errors = <<>>

AIInitVars ==
    /\ alert_filters = <<>>
    /\ pre_alert_callbacks = <<>>
    /\ post_alert_callbacks = <<>>
    /\ ai_change = None
    /\ filter_calls = 0
    /\ pre_calls = 0
    /\ post_calls = <<>>

RTInitVars ==
    /\ retryable_errors = {}
    /\ rt_pc = "idle"
    /\ rt_attempt = 0
    /\ rt_log = <<>>
    /\ rt_error = "none"
    /\ rt_wake = 0

FBInitVars ==
    /\ fallback_mode = "value"
    /\ service_states = <<>>
    /\ failure_counts = <<>>
    /\ fb_ret = [flip |-> 0, before |-> UNKNOWN, outcome |-> "ok",
                 invoked |-> FALSE, value |-> "none"]

ChkInitVars == task_exceptions = {}

ICInitVars ==
    /\ ic_configs = <<>>
    /\ ic_ret = [op |-> "none", raised |-> FALSE]

TplInitVars ==
    /\ tpl_template = <<>>
    /\ tpl_message = None
    /\ tpl_ret = [raised |-> FALSE, rendered |-> <<>>]

OptInitVars == opt_sample = None

PFInitVars ==
    /\ continue_on_partial_failure = TRUE
    /\ failed_services = <<>>
    /\ successful_services = <<>>
    /\ pf_ret = None

ResInitVars ==
    /\ RTInitVars /\ FBInitVars /\ ChkInitVars /\ ICInitVars /\ TplInitVars /\ OptInitVars
    /\ PFInitVars

ExtInitVars == CfgInitVars /\ CNInitVars /\ AIInitVars /\ ResInitVars

SMInit ==
    /\ now = 0
    /\ persistence_file \in BOOLEAN
    /\ SMInitVars
    /\ CBInitVars
    /\ AMInitVars
    /\ SchInitVars
    /\ ExtInitVars

SMNext ==
    \/ \E s \in Services, h \in BOOLEAN : update_state(HealthCheckResult(s, h, now))
    \/ clear_state_changes
    \/ \E keep_days \in {0, 1} : cleanup_history(keep_days)
    \/ StateManager_init
    \/ SMTick

SpecSM == SMInit /\ [][SMNext]_vars

CBInit ==
    /\ now = 0
    /\ persistence_file = FALSE
    /\ SMInitVars
    /\ CBInitVars
    /\ AMInitVars
    /\ SchInitVars
    /\ ExtInitVars
    /\ AMInitVars

CBNext ==
    \/ should_allow_request
    \/ record_success
    \/ record_failure
    \/ wrapper_call
    \/ wrapper_return
    \/ wrapper_raise
    \/ CBTick

SpecCB == CBInit /\ [][CBNext]_vars

\* The StateChange events given to send_alert: any service, either direction,
\* stamped now or in the past.
StateChangeEvents ==
    {[service_name |-> s, service_type |-> ServiceType(s), old_state |-> ~h,
      new_state |-> h, timestamp |-> t] :
        s \in Services, h \in BOOLEAN, t \in 0..now}

AMInit ==
    /\ now = 0
    /\ persistence_file = FALSE
    /\ SMInitVars
    /\ CBInitVars
    /\ AMInitVars
    /\ SchInitVars
    /\ ExtInitVars

AMNext ==
    \/ \E a \in Alerters : add_alerter(a)
    \/ \E a \in Alerters : remove_alerter(a)
    \/ \E e \in StateChangeEvents : send_alert(e)
    \/ clear_alert_history
    \/ AMTick

SpecAM == AMInit /\ [][AMNext]_vars

SchInit ==
    /\ now = 0
    /\ persistence_file = FALSE
    /\ SMInitVars
    /\ CBInitVars
    /\ AMInitVars
    /\ SchInitVars
    /\ ExtInitVars

SchNext ==
    \/ start
    \/ schedule_loop
    \/ schedule_loop_exit
    \/ \E t \in BagToSet(tasks) : check_service_acquire(t)
    \/ \E t \in BagToSet(tasks) : probe_return(t)
    \/ \E t \in BagToSet(tasks) : probe_raise(t)
    \/ \E t \in BagToSet(tasks) : check_service_end(t)
    \/ stop
    \/ \E t \in BagToSet(tasks) : check_service_cancelled(t)
    \/ stop_end
    \/ \E sample \in Samples : optimize_concurrent_checks(sample)
    \/ SchTick

SpecSched == SchInit /\ [][SchNext]_vars

\* What an alerter's send_alert does.
AlerterModes == {"ok", "false", "raise"}

\* An AlertManager whose alerters succeed, answer false or raise.
FanInit ==
    /\ now = 0
    /\ persistence_file = FALSE
    /\ SMInitVars
    /\ CBInitVars
    /\ alerters = {}
    /\ alert_history = <<>>
    /\ sent = [k \in AlertKeys |-> 0]
    /\ am_flip = 0
    /\ last_emit = <<>>
    /\ last_delivered = <<>>
    /\ am_results = EmptyBag
    /\ alerter_mode \in [Alerters -> AlerterModes]
    /\ SchInitVars
    /\ ExtInitVars

FanNext ==
    \/ \E a \in Alerters : add_alerter(a)
    \/ \E a \in Alerters : remove_alerter(a)
    \/ \E e \in StateChangeEvents : send_alert(e)
    \/ clear_alert_history

SpecFan == FanInit /\ [][FanNext]_vars

\* The services whose results the integrator is followed on.
AIServices == {"a"}

\* An AlertIntegrator built over a fresh StateManager with the two alerters
\* of its alert_configs, which succeed, answer false or raise, and set up
\* with its hooks.
AIInit ==
    /\ now = 0
    /\ persistence_file = FALSE
    /\ SMInitVars
    /\ CBInitVars
    /\ alerters = Alerters
    /\ alert_history = <<>>
    /\ sent = [k \in AlertKeys |-> 0]
    /\ am_flip = 0
    /\ last_emit = <<>>
    /\ last_delivered = <<>>
    /\ am_results = EmptyBag
    /\ alerter_mode \in [Alerters -> AlerterModes]
    /\ SchInitVars
    /\ CfgInitVars
    /\ CNInitVars
    /\ alert_filters = <<>>
    /\ pre_alert_callbacks \in HookLists
    /\ post_alert_callbacks \in HookLists
    /\ ai_change = None
    /\ filter_calls = 0
    /\ pre_calls = 0
    /\ post_calls = <<>>
    /\ ResInitVars

AINext ==
    \/ \E s \in AIServices, h \in BOOLEAN :
          process_health_check_result(HealthCheckResult(s, h, now))
    \/ \E mode \in FilterModes : add_alert_filter(mode)

SpecAI == AIInit /\ [][AINext]_vars

\* Last value of the clock while on-demand checks are followed (seconds).
MaxNowSecond == 1

\* The clock advances by one second.
NowTick ==
    /\ now < MaxNowSecond
    /\ now' = now + 1
    /\ UNCHANGED <<smVars, cbVars, amVars, schVars, extVars>>

\* A fresh scheduler: nothing configured yet, any bound up to InitialMax,
\* an error callback registered or not.
NowInit ==
    /\ now = 0
    /\ persistence_file = FALSE
    /\ SMInitVars
    /\ CBInitVars
    /\ AMInitVars
    /\ is_running = FALSE
    /\ stopping = FALSE
    /\ max_concurrent_checks \in 1..InitialMax
    /\ semaphore = 0
    /\ sems = <<>>
    /\ tasks = EmptyBag
    /\ last_check_times = <<>>
    /\ last_spawn = <<>>
    /\ loop = "idle"
    /\ loop_wake = 0
    /\ checkers = <<>>
    /\ check_intervals = <<>>
    /\ on_check_error \in BOOLEAN
    /\ cfg_ret = "none"
    /\ CNInitVars
    /\ AIInitVars
    /\ ResInitVars

NowNext ==
    \/ \E c \in ServiceConfigs, d \in DefaultIntervals : configure_services(c, d)
    \/ check_all_services_now
    \/ \E s \in Services, h \in BOOLEAN : now_probe_return(s, h)
    \/ \E s \in Services : now_probe_raise(s)
    \/ \E s \in Services : now_errback_end(s)
    \/ check_all_services_now_return
    \/ NowTick

SpecNow == NowInit /\ [][NowNext]_vars

\* A retry_on_error(max_attempts = RetryMaxAttempts) around
\* with_circuit_breaker around an operation, called again and again from one
\* thread, with any of the retryable_errors lists.
RetryInit ==
    /\ now = 0
    /\ persistence_file = FALSE
    /\ SMInitVars
    /\ CBInitVars
    /\ AMInitVars
    /\ SchInitVars
    /\ CfgInitVars /\ CNInitVars /\ AIInitVars
    /\ retryable_errors \in RetryableErrorLists
    /\ rt_pc = "idle" /\ rt_attempt = 0 /\ rt_log = <<>> /\ rt_error = "none"
    /\ rt_wake = 0
    /\ FBInitVars /\ ChkInitVars /\ ICInitVars /\ TplInitVars /\ OptInitVars /\ PFInitVars

RetryNext ==
    \/ \E outcome \in OperationOutcomes : retry_call(outcome)
    \/ \E outcome \in OperationOutcomes : retry_wake(outcome)
    \/ CBTick

SpecRetry == RetryInit /\ [][RetryNext]_vars

\* A function decorated with with_fallback, with any of the fallbacks.
FBInit ==
    /\ now = 0
    /\ persistence_file = FALSE
    /\ SMInitVars
    /\ CBInitVars
    /\ AMInitVars
    /\ SchInitVars
    /\ CfgInitVars /\ CNInitVars /\ AIInitVars
    /\ RTInitVars
    /\ fallback_mode \in FallbackModes
    /\ service_states = <<>> /\ failure_counts = <<>>
    /\ fb_ret = [flip |-> 0, before |-> UNKNOWN, outcome |-> "ok",
                 invoked |-> FALSE, value |-> "none"]
    /\ ChkInitVars /\ ICInitVars /\ TplInitVars /\ OptInitVars /\ PFInitVars

FBNext ==
    \/ \E outcome \in {"ok", "ConnectionError"} : with_fallback(outcome)
    \/ \E state \in {HEALTHY, UNHEALTHY} : update_service_state(state)
    \/ FBTick

SpecFallback == FBInit /\ [][FBNext]_vars

\* The scheduler started and left running, its callbacks returning or raising.
CheckNext ==
    \/ start
    \/ schedule_loop
    \/ \E t \in BagToSet(tasks) : check_service_acquire(t)
    \/ \E t \in BagToSet(tasks) : probe_return(t)
    \/ \E t \in BagToSet(tasks) : probe_raise(t)
    \/ \E t \in BagToSet(tasks) : check_service_end(t)
    \/ \E t \in BagToSet(tasks) : callback_raise(t)
    \/ \E t \in BagToSet(tasks) : errback_raise(t)
    \/ SchTick

SpecCheck == SchInit /\ [][CheckNext]_vars

\* An AlertIntegrator constructed, and reloaded, with any alert_configs.
InitNext ==
    \/ \E c \in AlertConfigs : AlertIntegrator_init(c)
    \/ \E c \in AlertConfigs : reload_alert_config(c)

SpecInit == AMInit /\ [][InitNext]_vars

\* render_template given any template and message.
TplNext ==
    \E template_str \in Templates, message \in Messages :
        render_template(template_str, message)

SpecTemplate == AMInit /\ [][TplNext]_vars

\* A scheduler constructed with any max_concurrent_checks and given any
\* sequence of samples.
OptInit ==
    /\ now = 0
    /\ persistence_file = FALSE
    /\ SMInitVars
    /\ CBInitVars
    /\ AMInitVars
    /\ is_running = FALSE
    /\ stopping = FALSE
    /\ max_concurrent_checks \in 1..MaxInitialLimit
    /\ semaphore = 0
    /\ sems = <<>>
    /\ tasks = EmptyBag
    /\ last_check_times = <<>>
    /\ last_spawn = <<>>
    /\ loop = "idle"
    /\ loop_wake = 0
    /\ ExtInitVars

OptNext ==
    \E sample \in OptSamples : optimize_concurrent_checks_idle(sample)

SpecOpt == OptInit /\ [][OptNext]_vars

\* The service whose probe may hang: no probe of it is required to answer.
\* A PartialFailureHandler of either configuration.
PFInit ==
    /\ now = 0
    /\ persistence_file = FALSE
    /\ SMInitVars
    /\ CBInitVars
    /\ AMInitVars
    /\ SchInitVars
    /\ CfgInitVars /\ CNInitVars /\ AIInitVars
    /\ RTInitVars /\ FBInitVars /\ ChkInitVars /\ ICInitVars /\ TplInitVars /\ OptInitVars
    /\ continue_on_partial_failure \in BOOLEAN
    /\ failed_services = <<>>
    /\ successful_services = <<>>
    /\ pf_ret = None

PFNext ==
    \/ \E tolerate \in BOOLEAN : PartialFailureHandler_init(tolerate)
    \/ \E s \in Services, success \in BOOLEAN : handle_service_result(s, success)
    \/ should_continue

SpecPartial == PFInit /\ [][PFNext]_vars

\* The services_config dicts a running scheduler is reconfigured with: valid
\* entries (check_interval 2) for any selection of the services.
ReconfigConfigs ==
    {c \in ServiceConfigs :
        \A k \in 1..Len(c) : c[k].creatable /\ c[k].check_interval = Some([is_int |-> TRUE, value |-> 2])}

\* A started scheduler whose configuration is replaced while its checks are
\* in flight (the config watcher's callback calls configure_services).
ReconfNext ==
    \/ start
    \/ schedule_loop
    \/ \E t \in BagToSet(tasks) : check_service_acquire(t)
    \/ \E t \in BagToSet(tasks) : probe_return(t)
    \/ \E t \in BagToSet(tasks) : probe_raise(t)
    \/ \E t \in BagToSet(tasks) : check_service_end(t)
    \/ \E c \in ReconfigConfigs, d \in DefaultIntervals : configure_services(c, d)
    \/ SchTick

SpecReconf == SchInit /\ [][ReconfNext]_vars

HangingService == "a"

\* The steps of the check tasks of one service.
AcquireOf(service_name) ==
    \E t \in BagToSet(tasks) : t.service = service_name /\ check_service_acquire(t)
ProbeAnswerOf(service_name) ==
    \E t \in BagToSet(tasks) :
        t.service = service_name /\ (probe_return(t) \/ probe_raise(t))
EndOf(service_name) ==
    \E t \in BagToSet(tasks) : t.service = service_name /\ check_service_end(t)

\* The event loop runs every task that is ready: the schedule loop wakes from
\* its sleep, a callback that was awaited returns, a cancelled task unwinds,
\* a task waiting on a semaphore gets a slot that keeps coming free, and a
\* probe of a service other than HangingService answers. Nothing obliges the
\* operator to stop or re-tune the scheduler, nor the clock to advance.
FairSpecSched ==
    /\ SchInit /\ [][SchNext]_vars
    /\ WF_vars(schedule_loop)
    /\ WF_vars(schedule_loop_exit)
    /\ WF_vars(\E t \in BagToSet(tasks) : check_service_cancelled(t))
    /\ WF_vars(stop_end)
    /\ \A s \in Services : SF_vars(AcquireOf(s)) /\ WF_vars(EndOf(s))
    /\ \A s \in Services \ {HangingService} : WF_vars(ProbeAnswerOf(s))

\* ------------------------------------------------- claims on StateManager

\* The results of `log` that are about service s, in order.
ResultsOf(log, s) == SelectSeq(log, LAMBDA r : r.service_name = s)

\* A step that is one update_state call: the tracker was given one more result.
IsUpdateStep == Len(processed') = Len(processed) + 1

\* C1: when a result for a service differs in is_healthy from the previous
\* result processed for that service, update_state returns exactly one
\* StateChange whose old_state is the previous result's value and whose
\* new_state is this result's value, appends exactly that event to
\* state_changes and sets current_states[service] to the new value.
C1_DifferingPairOneChange ==
    [][ IsUpdateStep =>
          LET r == Last(processed')
              before == ResultsOf(processed, r.service_name)
          IN (before # <<>> /\ Last(before).is_healthy # r.is_healthy) =>
                LET c == [service_name |-> r.service_name,
                          service_type |-> r.service_type,
                          old_state |-> Last(before).is_healthy,
                          new_state |-> r.is_healthy,
                          timestamp |-> r.timestamp]
                IN /\ sm_ret' = Some(c)
                   /\ state_changes' = Append(state_changes, c)
                   /\ r.service_name \in DOMAIN current_states'
                   /\ current_states'[r.service_name] = r.is_healthy ]_vars

\* C1 witness: a second result for a service flipped its health and the call
\* returned an event that is the last entry of state_changes.
C1_Witness ==
    /\ sm_ret # None
    /\ state_changes # <<>>
    /\ Last(state_changes) = sm_ret[1]
    /\ Len(ResultsOf(processed, sm_ret[1].service_name)) >= 2

\* C2: the first result ever processed for a service produces no StateChange:
\* it records is_healthy as the baseline and appends nothing to state_changes.
C2_FirstResultNoChange ==
    [][ IsUpdateStep =>
          LET r == Last(processed')
          IN ResultsOf(processed, r.service_name) = <<>> =>
                /\ sm_ret' = None
                /\ state_changes' = state_changes
                /\ r.service_name \in DOMAIN current_states'
                /\ current_states'[r.service_name] = r.is_healthy ]_vars

\* C2 witness: one unhealthy result was processed for a service, it is that
\* service's only result, and nothing was returned.
C2_Witness ==
    /\ processed # <<>>
    /\ Len(ResultsOf(processed, Last(processed).service_name)) = 1
    /\ ~Last(processed).is_healthy
    /\ sm_ret = None
    /\ state_history # <<>>

\* C3: when a result for a service has the same is_healthy as the previous
\* result processed for that service, update_state returns no StateChange and
\* leaves state_changes and current_states[service] unchanged.
C3_EqualPairNoChange ==
    [][ IsUpdateStep =>
          LET r == Last(processed')
              before == ResultsOf(processed, r.service_name)
          IN (before # <<>> /\ Last(before).is_healthy = r.is_healthy) =>
                /\ sm_ret' = None
                /\ state_changes' = state_changes
                /\ current_states' = current_states ]_vars

\* C3 witness: two results with the same health were processed for a service
\* one after the other and nothing was returned.
C3_Witness ==
    /\ Len(processed) >= 2
    /\ LET r == Last(processed)
           mine == ResultsOf(processed, r.service_name)
       IN /\ Len(mine) >= 2
          /\ mine[Len(mine) - 1].is_healthy = r.is_healthy
    /\ sm_ret = None
    /\ state_history # <<>>
    /\ Last(state_history) = Last(processed)

\* ----------------------------------------------- claims on CircuitBreaker

\* A step that is a call made on the breaker.
IsBreakerCall == cb_flip' # cb_flip

\* C8: FailureThreshold consecutive record_failure calls that start with the
\* breaker CLOSED leave it OPEN; a call through with_circuit_breaker made while
\* the breaker is OPEN and RecoveryTimeout has not elapsed since the last
\* failure is rejected and the wrapped operation is not invoked; the first call
\* made once RecoveryTimeout has elapsed is let through (the operation is
\* invoked) and the breaker is HALF_OPEN.
C8_OpenRejectsThenHalfOpen ==
    [][ IsBreakerCall =>
          /\ (cb_fail_run'[1] = CLOSED /\ cb_fail_run'[2] >= FailureThreshold)
                => breaker'.state = OPEN
          /\ (cb_op' = "call" /\ breaker.state = OPEN
                /\ now - breaker.last_failure_time < RecoveryTimeout)
                => (cb_ret' = FALSE /\ cb_inflight' = cb_inflight
                      /\ breaker'.state = OPEN)
          /\ (cb_op' = "call" /\ breaker.state = OPEN
                /\ now - breaker.last_failure_time >= RecoveryTimeout)
                => (cb_ret' = TRUE /\ cb_inflight' = cb_inflight + 1
                      /\ breaker'.state = HALF_OPEN) ]_vars

\* C8 witness: a run of FailureThreshold failures has opened the breaker, and
\* later a wrapper call was let through into HALF_OPEN.
C8_Witness ==
    /\ cb_op = "call"
    /\ cb_ret = TRUE
    /\ breaker.state = HALF_OPEN
    /\ breaker.failure_count >= FailureThreshold
    /\ now - breaker.last_failure_time >= RecoveryTimeout
    /\ cb_inflight > 0

\* C8 witness of the rejection: a wrapper call was turned away by the OPEN breaker.
C8_RejectedReached ==
    cb_op = "call" /\ cb_ret = FALSE /\ breaker.state = OPEN

\* The transitions the breaker may make.
AllowedTransitions ==
    {<<CLOSED, OPEN>>, <<OPEN, HALF_OPEN>>, <<HALF_OPEN, CLOSED>>,
     <<HALF_OPEN, OPEN>>}

\* C9: whatever calls are made on the breaker, its state changes only along
\* CLOSED->OPEN, OPEN->HALF_OPEN, HALF_OPEN->CLOSED and HALF_OPEN->OPEN.
C9_OnlyAllowedTransitions ==
    [][ breaker'.state # breaker.state =>
          <<breaker.state, breaker'.state>> \in AllowedTransitions ]_vars

\* C9 witness: the breaker has gone round the whole cycle and is CLOSED again
\* after a recovery.
C9_Witness ==
    /\ breaker.state = CLOSED
    /\ cb_op = "record_success"
    /\ cb_ho_successes >= HalfOpenMaxCalls
    /\ breaker.last_failure_time > 0

\* C10: in HALF_OPEN the breaker closes exactly at the call that records the
\* HalfOpenMaxCalls-th success since HALF_OPEN was entered, and that call
\* resets failure_count to 0; one record_failure in HALF_OPEN re-opens it.
C10_HalfOpenCloseAndReopen ==
    [][ (IsBreakerCall /\ breaker.state = HALF_OPEN) =>
          /\ breaker'.state = CLOSED <=>
                (cb_op' = "record_success" /\ cb_ho_successes' = HalfOpenMaxCalls)
          /\ breaker'.state = CLOSED => breaker'.failure_count = 0
          /\ breaker'.state = OPEN <=> cb_op' = "record_failure" ]_vars

\* C10 witness: the breaker closed from HALF_OPEN with failure_count reset.
C10_Witness ==
    /\ breaker.state = CLOSED
    /\ cb_op = "record_success"
    /\ cb_ho_successes = HalfOpenMaxCalls
    /\ breaker.failure_count = 0
    /\ breaker.success_count = HalfOpenMaxCalls

\* C10 witness of the re-opening: a failure in HALF_OPEN after one success.
C10_ReopenReached ==
    /\ breaker.state = OPEN
    /\ cb_op = "record_failure"
    /\ cb_ho_successes = 1
    /\ breaker.success_count = 1

\* ------------------------------------------------- claims on AlertManager

Abs(x) == IF x < 0 THEN -x ELSE x

\* The alert key of a StateChange event.
EventKey(e) == AlertKey(CreateAlertMessage(e))

\* C4: with an alerter registered, an event whose key has had no notification
\* yet is emitted; an event whose timestamp lies within the dedup window of
\* the last notification emitted for its key is suppressed, so the two events
\* make exactly one notification; an event whose timestamp is at least one
\* window after that notification is emitted as the second one.
C4_DedupWithinWindow ==
    [][ \A e \in StateChangeEvents :
          (send_alert(e) /\ alerters # {}) =>
            LET k == EventKey(e)
            IN /\ k \notin DOMAIN last_emit => sent'[k] = sent[k] + 1
               /\ (k \in DOMAIN last_emit
                     /\ Abs(e.timestamp - last_emit[k]) < DuplicateThreshold)
                    => sent' = sent
               /\ (k \in DOMAIN last_emit
                     /\ e.timestamp - last_emit[k] >= DuplicateThreshold)
                    => sent'[k] = sent[k] + 1 ]_vars

\* The same with the purge taken out of the picture: the statement restricted
\* to keys whose recorded emission is still in _alert_history.
C4_DedupWhileRecorded ==
    [][ \A e \in StateChangeEvents :
          (send_alert(e) /\ alerters # {}) =>
            LET k == EventKey(e)
            IN (k \in DOMAIN last_emit => k \in DOMAIN alert_history) =>
               /\ k \notin DOMAIN last_emit => sent'[k] = sent[k] + 1
               /\ (k \in DOMAIN last_emit
                     /\ Abs(e.timestamp - last_emit[k]) < DuplicateThreshold)
                    => sent' = sent
               /\ (k \in DOMAIN last_emit
                     /\ e.timestamp - last_emit[k] >= DuplicateThreshold)
                    => sent'[k] = sent[k] + 1 ]_vars

\* ---------------------------------------------- claims on MonitorScheduler

\* The number of tasks of service_name (all services when given Services)
\* that are at one of the stages pcs.
TasksAt(services, pcs) ==
    BagCardinality([t \in {u \in BagToSet(tasks) : u.service \in services /\ u.pc \in pcs}
                      |-> CopiesIn(t, tasks)])

\* C5: at every moment the number of tick-spawned checks that are executing
\* a probe is at most max_concurrent_checks.
C5_ProbesWithinBound ==
    TasksAt(Services, {"probe"}) <= max_concurrent_checks

\* While the semaphore created by start() is the one in use, the probes
\* executing are within the bound.
C5_WithinBoundWhileSameSemaphore ==
    semaphore = 1 /\ Len(sems) = 1 => TasksAt(Services, {"probe"}) <= max_concurrent_checks

\* C6: for every configured service the tick loop never has two checks of
\* that service in flight at once (waiting for a slot or running the probe).
C6_OneCheckPerService ==
    \A s \in Services : TasksAt({s}, {"waiting", "probe"}) <= 1

\* C7: while the scheduler runs with max_concurrent_checks >= 2 and the probe
\* of one service never returns, a check of another service that is due and
\* waits for its slot eventually has its probe invoked.
C7_NoStarvation ==
    \A s \in Services \ {HangingService} :
        [](TasksAt({s}, {"waiting"}) > 0 /\ is_running /\ max_concurrent_checks >= 2
             => <>(\/ TasksAt({s}, {"waiting"}) = 0
                   \/ ~is_running
                   \/ max_concurrent_checks < 2))

\* The same with the semaphore never replaced: the starvation needs no
\* optimize_concurrent_checks.
C7_NoStarvationSameSemaphore ==
    \A s \in Services \ {HangingService} :
        [](TasksAt({s}, {"waiting"}) > 0 /\ is_running /\ max_concurrent_checks >= 2
             => <>(\/ TasksAt({s}, {"waiting"}) = 0
                   \/ ~is_running
                   \/ max_concurrent_checks < 2
                   \/ Len(sems) # 1))

\* The number of probes of HangingService that hold a slot of semaphore k.
HangingProbesOn(bag, k) ==
    BagCardinality([t \in {u \in BagToSet(bag) : /\ u.service = HangingService
                                                  /\ u.pc = "probe" /\ u.sem = k}
                      |-> CopiesIn(t, bag)])

\* Every slot of semaphore k is held by a probe of HangingService.
Exhausted(k) ==
    /\ sems[k] = 0
    /\ \A t \in BagToSet(tasks) : HoldsSlot(t) /\ t.sem = k
                                     => t.service = HangingService /\ t.pc = "probe"

\* Whatever the clock and the tick loop do next, a semaphore whose slots are
\* all held by probes of HangingService has no slot free for as long as the
\* scheduler runs and none of these probes answers: the checks waiting on it
\* stay waiting.
C7_ExhaustedStaysExhausted ==
    [][ \A k \in 1..Len(sems) :
          (/\ Exhausted(k)
           /\ is_running'
           /\ HangingProbesOn(tasks', k) >= HangingProbesOn(tasks, k))
          => /\ k <= Len(sems') /\ sems'[k] = 0
             /\ \A t \in BagToSet(tasks) :
                  t.pc = "waiting" /\ t.sem = k => BagIn(t, tasks') ]_vars

\* ------------------------------------- claims on check_all_services_now

\* A step in which check_all_services_now returns its dict.
IsNowReturn == cn_state = "gathering" /\ cn_state' = "idle"

\* C11: the map returned by check_all_services_now has an entry for every
\* service the call made a check for, holding the result of each probe that
\* returned and None for each probe that raised, and the error callback
\* (when one is registered) was invoked exactly once for each raising probe
\* and never for a probe that returned.
C11_PartialFailureIsolated ==
    [][ IsNowReturn =>
          /\ DOMAIN cn_results' = Range(cn_names)
          /\ \A s \in Range(cn_names) :
                /\ cn_results'[s] = cn_outcomes[s]
                /\ on_check_error =>
                     cn_errors[s] = (IF cn_outcomes[s] = None THEN 1 ELSE 0) ]_vars

\* C11 witness: a call over two services has returned, one probe having
\* raised and the other returned a result, with an error callback registered.
C11_Witness ==
    /\ cn_state = "idle" /\ on_check_error
    /\ \E s, t \in DOMAIN cn_results : cn_results[s] = None /\ cn_results[t] # None

\* C20: with max_concurrent_checks = N and more than N configured services,
\* at most N probes of check_all_services_now execute simultaneously.
C20_NowProbesWithinBound ==
    Cardinality({s \in DOMAIN cn_tasks : cn_tasks[s] = "probe"}) <= max_concurrent_checks

\* ------------------------------------------- claims on configure_services

\* C12: configure_services is all-or-nothing: a call that raises installs no
\* subset of the new entries and leaves the previous checkers and
\* check_intervals in force.
C12_ConfigureAllOrNothing ==
    [][ \A c \in ServiceConfigs, d \in DefaultIntervals :
          configure_services(c, d) /\ cfg_ret' = "raised"
             => checkers' = checkers /\ check_intervals' = check_intervals ]_vars

\* ------------------------------------------------- claims on stop()

\* C13: stop() on a running scheduler cancels every in-flight check and
\* waits for all of them: when it returns is_running is false, no check task
\* is left and the semaphore is dropped; and while the scheduler is not
\* running no check is spawned.
C13_StopCancelsAndWaits ==
    [][ /\ (stopping /\ ~stopping') =>
              ~is_running' /\ tasks' = EmptyBag /\ semaphore' = 0
        /\ ~is_running =>
              \A t \in BagToSet(tasks') : CopiesIn(t, tasks') <= CopiesIn(t, tasks) ]_vars

\* C13 witness: a scheduler whose loop spawned the checks of this second has
\* been stopped, its loop not yet awake: not running, no task, no semaphore.
C13_Witness ==
    /\ ~is_running /\ ~stopping /\ loop = "sleeping" /\ loop_wake > now
    /\ tasks = EmptyBag /\ semaphore = 0

ResultsFrom(results, a) ==
    BagCardinality([r \in {x \in BagToSet(results) : x.alerter = a}
                      |-> CopiesIn(r, results)])

\* C15: for every notification that passes deduplication, send_alert of
\* every registered alerter is invoked exactly once, whatever the other
\* alerters do (succeed, answer false or raise), each invocation is reported
\* with its own outcome, and AlertManager.send_alert completes.
C15_FanOutReachesEveryAlerter ==
    [][ SentTotal(sent') = SentTotal(sent) + 1 =>
          /\ BagCardinality(am_results') = Cardinality(alerters)
          /\ \A a \in alerters :
                /\ ResultsFrom(am_results', a) = 1
                /\ \A r \in BagToSet(am_results') :
                      r.alerter = a => (r.success <=> alerter_mode[a] = "ok") ]_vars

\* C15 witness: a notification went to two alerters of which one raised and
\* the other succeeded.
C15_Witness ==
    /\ BagCardinality(am_results) = 2
    /\ \E r, q \in BagToSet(am_results) : r.error /\ q.success

\* --------------------------------------------- claims on AlertIntegrator

\* A step in which process_health_check_result handed a change to trigger_alert.
IsTriggerStep == Len(processed') = Len(processed) + 1 /\ sm_ret' # None

\* C16: each post-dispatch hook is invoked once with (state_change,
\* overallSuccess), overallSuccess being true if and only if at least one
\* alerter's send succeeded for that state change.
C16_PostHooksGetOverallSuccess ==
    [][ IsTriggerStep /\ am_flip' # am_flip =>
          /\ Len(post_calls') = Len(post_alert_callbacks)
          /\ \A i \in 1..Len(post_calls') :
                /\ post_calls'[i][1] = i
                /\ post_calls'[i][2] = (\E r \in BagToSet(am_results') : r.success) ]_vars

\* The post hooks are invoked once each, with True, whenever the change
\* passed the filters.
C16_PostHooksGetTrue ==
    [][ IsTriggerStep /\ am_flip' # am_flip =>
          post_calls' = [i \in 1..Len(post_alert_callbacks) |-> <<i, TRUE>>] ]_vars

\* The position of the first filter that returns false, 0 when there is none.
FirstDeny(filters) ==
    IF \E i \in 1..Len(filters) : filters[i] = "deny"
    THEN CHOOSE i \in 1..Len(filters) :
            filters[i] = "deny" /\ \A j \in 1..(i - 1) : filters[j] # "deny"
    ELSE 0

\* C17: if any registered filter returns false for a change, the change is
\* dropped: no pre hook runs and no alerter is invoked; a filter that raises
\* counts as "allow" and the filters after it are still evaluated, so that
\* a change no filter rejects goes through the pre hooks to send_alert.
C17_FilterChainFailOpen ==
    [][ IsTriggerStep =>
          IF FirstDeny(alert_filters) # 0
          THEN /\ filter_calls' = FirstDeny(alert_filters)
               /\ pre_calls' = 0
               /\ post_calls' = <<>>
               /\ amVars' = amVars
          ELSE /\ filter_calls' = Len(alert_filters)
               /\ pre_calls' = Len(pre_alert_callbacks)
               /\ am_flip' # am_flip ]_vars

\* C17 witness: a change went through a chain whose first filter raises and
\* whose second allows, and reached the alerters.
C17_Witness ==
    /\ alert_filters = <<"raise", "allow">>
    /\ ai_change # None /\ filter_calls = 2
    /\ am_results # EmptyBag

\* A change was dropped by a filter that stands behind a raising one.
C17_DropReached ==
    /\ alert_filters = <<"raise", "deny">>
    /\ ai_change # None /\ filter_calls = 2 /\ am_results = EmptyBag

\* The is_healthy values of a sequence of results.
HealthOf(log) == [i \in 1..Len(log) |-> log[i].is_healthy]

\* C18: for one service whose results healthy, unhealthy, healthy are
\* processed in that order, two alerters being registered and no filter
\* rejecting, the baseline observation causes no send, the DOWN transition
\* one notification with one send per alerter and the UP transition one
\* notification with one send per alerter (two notifications, four sends).
C18_BaselineDownUp ==
    [][ \A s \in AIServices :
          (/\ Len(processed') = Len(processed) + 1
           /\ Last(processed').service_name = s
           /\ FirstDeny(alert_filters) = 0
           /\ alerters = Alerters)
          => LET seen == HealthOf(ResultsOf(processed', s))
                 key(status) == <<s, status>>
                 two == /\ BagCardinality(am_results') = 2
                        /\ \A a \in Alerters : ResultsFrom(am_results', a) = 1
             IN /\ seen = <<TRUE>> => sent' = sent /\ am_flip' = am_flip
                /\ seen = <<TRUE, FALSE>> =>
                      /\ sent' = [sent EXCEPT ![key("DOWN")] = @ + 1]
                      /\ two
                /\ seen = <<TRUE, FALSE, TRUE>> =>
                      /\ sent' = [sent EXCEPT ![key("UP")] = @ + 1]
                      /\ two
                /\ (seen = <<TRUE, FALSE, TRUE>> /\ sent[key("DOWN")] = 1)
                      => SentTotal(sent') = 2 ]_vars

\* C18 witness: healthy, unhealthy, healthy were processed for service a and
\* two notifications, DOWN then UP, went to both alerters.
C18_Witness ==
    /\ HealthOf(ResultsOf(processed, "a")) = <<TRUE, FALSE, TRUE>>
    /\ sent[<<"a", "DOWN">>] = 1 /\ sent[<<"a", "UP">>] = 1
    /\ BagCardinality(am_results) = 2

\* ------------------------------------------------- claims on persistence

\* C19: after any sequence of update_state calls on a StateManager with a
\* persistence file, a new StateManager constructed on the same file has the
\* same get_all_states() (current_states) as the first one.
C19_PersistenceRoundTrip ==
    [][ StateManager_init /\ persistence_file => current_states' = current_states ]_vars

\* C19 witness: a tracker restarted from its file knows a healthy and an
\* unhealthy service.
C19_Witness ==
    /\ persistence_file /\ file # None
    /\ state_history = <<>> /\ sm_ret = None /\ processed # <<>>
    /\ \E s, t \in DOMAIN current_states : current_states[s] /\ ~current_states[t]
    /\ current_states = LoadCurrentStates(file[1])

\* ------------------------------------------------------------ C21 .. C30

\* The attempts of the current retry call that invoked the operation.
Invocations == {j \in 1..Len(rt_log) : rt_log[j].admitted}

\* C21 (as stated): when retry_on_error wraps with_circuit_breaker, once the
\* breaker is OPEN no further retry attempt of the call invokes the
\* operation, so the operation is invoked at most failure_threshold times in
\* one call.
C21_RetriesNeverInvokeOnceOpen ==
    /\ \A j \in 2..Len(rt_log) : rt_log[j].before = OPEN => ~rt_log[j].admitted
    /\ Cardinality(Invocations) <= FailureThreshold

\* C21 (amended): every attempt goes through the breaker: an attempt made
\* while the breaker is OPEN and recovery_timeout has not elapsed since the
\* last failure fails with the circuit-open error without invoking the
\* operation, and in a call none of whose retries the breaker admits from OPEN
\* (as its half-open trial) the operation is invoked at most failure_threshold
\* times.
C21_RetriesPassThroughBreaker ==
    /\ \A j \in 1..Len(rt_log) :
          rt_log[j].before = OPEN /\ ~rt_log[j].recovered
             => ~rt_log[j].admitted /\ rt_log[j].result = CircuitOpenError
    /\ (\A j \in 2..Len(rt_log) : ~(rt_log[j].before = OPEN /\ rt_log[j].admitted))
          => Cardinality(Invocations) <= FailureThreshold

\* A call whose attempts invoked the operation until its failures opened the
\* breaker, and whose next attempt was rejected with the circuit-open error.
C21_Witness ==
    /\ rt_pc = "raised" /\ rt_error = CircuitOpenError
    /\ Len(rt_log) >= 3
    /\ Invocations = 1..(Len(rt_log) - 1)
    /\ rt_log[1].before = CLOSED /\ Last(rt_log).before = OPEN

\* C24: retry_on_error with max_attempts = K invokes the wrapped function at
\* most K times per call: every attempt but the last one failed with an error
\* that is retried; the call returns at the first success, re-raises at once
\* an error that should_retry rejects, and re-raises the last error after K
\* failed attempts; while it sleeps fewer than K attempts were made.
C24_RetryBounded ==
    /\ Len(rt_log) <= RetryMaxAttempts
    /\ rt_attempt = Len(rt_log)
    /\ \A i \in 1..(Len(rt_log) - 1) :
          rt_log[i].result # "ok" /\ RetryableError(rt_log[i].result)
    /\ rt_pc = "returned" => Last(rt_log).result = "ok"
    /\ rt_pc = "raised" =>
          /\ Last(rt_log).result # "ok"
          /\ rt_error = Last(rt_log).result
          /\ ~RetryableError(rt_error) \/ Len(rt_log) = RetryMaxAttempts
    /\ rt_pc = "sleep" =>
          /\ Last(rt_log).result # "ok"
          /\ RetryableError(Last(rt_log).result)
          /\ Len(rt_log) < RetryMaxAttempts

\* K attempts failed with a retried error and the last one is re-raised.
C24_Witness ==
    /\ rt_pc = "raised"
    /\ Len(rt_log) = RetryMaxAttempts
    /\ RetryableError(rt_error)

\* An error that is not retried, re-raised after a single invocation.
C24_RejectedAtOnce ==
    rt_pc = "raised" /\ Len(rt_log) = 1 /\ rt_error = "ValueError"

\* Whether this step is a call through with_fallback.
IsFallbackCall == fb_ret'.flip # fb_ret.flip

\* C22: a failure that brings the failures recorded for the key within
\* failure_window to max_failures makes the key DEGRADED, and every call
\* through with_fallback made while the key is DEGRADED returns the fallback
\* value (or the fallback function's result) without invoking the operation.
C22_DegradedShortCircuits ==
    [][IsFallbackCall =>
         /\ GetServiceState(service_states, FallbackKey) = DEGRADED
               => ~fb_ret'.invoked /\ fb_ret'.value = GetFallbackValue
         /\ (/\ fb_ret'.invoked /\ fb_ret'.outcome # "ok"
             /\ Len(FailuresOf(failure_counts', FallbackKey)) >= MaxFailures)
               => GetServiceState(service_states', FallbackKey) = DEGRADED]_vars

\* A call short-circuited while the key is DEGRADED, the operation being able
\* to succeed.
C22_Witness ==
    /\ fb_ret.before = DEGRADED /\ ~fb_ret.invoked /\ fb_ret.outcome = "ok"
    /\ Len(FailuresOf(failure_counts, FallbackKey)) >= MaxFailures

\* C23: a call through with_fallback made while the key is DEGRADED and the
\* operation succeeds again leaves the key HEALTHY with an empty failure window.
C23_SuccessWhileDegradedRecovers ==
    [][(/\ IsFallbackCall
        /\ GetServiceState(service_states, FallbackKey) = DEGRADED
        /\ fb_ret'.outcome = "ok")
          => /\ GetServiceState(service_states', FallbackKey) = HEALTHY
             /\ FailuresOf(failure_counts', FallbackKey) = <<>>]_vars

\* What the code does instead: no call through with_fallback takes the key
\* out of DEGRADED, and a success never changes the failure window.
C23_DegradedIsAbsorbing ==
    [][IsFallbackCall =>
         /\ GetServiceState(service_states, FallbackKey) = DEGRADED
               => GetServiceState(service_states', FallbackKey) = DEGRADED
         /\ fb_ret'.outcome = "ok" => failure_counts' = failure_counts]_vars

\* C25: no tick-spawned check task ends with an exception (a probe's
\* exception becomes an error-callback invocation and an exception of either
\* callback is swallowed), and the tick loop keeps running.
C25_CheckFailuresIsolated ==
    /\ task_exceptions = {}
    /\ is_running => loop = "sleeping"

\* The part of C25 the code keeps: whatever the callbacks do, the tick loop
\* keeps running and a task that ends gives its slot back.
C25_LoopKeepsRunning ==
    /\ is_running => loop = "sleeping"
    /\ semaphore # 0 =>
          sems[semaphore] + TasksAt(Services, {"probe", "callback", "errback"})
             >= max_concurrent_checks

\* The result callbacks being awaited for service s, by tick-spawned tasks and
\* by check_service_now.
CallbacksAwaited(s) ==
    TasksAt({s}, {"callback"})
       + (IF s \in DOMAIN cn_tasks /\ cn_tasks[s] = "callback" THEN 1 ELSE 0)

\* This step records a check of s that completed with a result.
CheckRecorded(s) ==
    /\ s \in DOMAIN last_check_times'
    /\ s \notin DOMAIN last_check_times \/ last_check_times'[s] # last_check_times[s]

\* C26: every check that completes with a result, tick-spawned or run through
\* check_service_now / check_all_services_now, invokes the result callback
\* once.
C26_ResultCallbackPerCheck ==
    [][\A s \in Services :
          CheckRecorded(s) => CallbacksAwaited(s)' = CallbacksAwaited(s) + 1]_vars

\* C27: AlertIntegrator construction and reload_alert_config either install
\* a notifier for every entry of the configs or fail with an error.
C27_EveryEntryInstalledOrError ==
    ic_ret.op # "none" =>
        \/ ic_ret.raised
        \/ \A k \in 1..Len(ic_configs) : ic_configs[k].name \in alerters

\* What the code does instead: it always returns normally, with the valid
\* 'http' entries installed and every other entry dropped.
C27_OnlyValidHttpInstalled ==
    ic_ret.op # "none" =>
        /\ ~ic_ret.raised
        /\ alerters = {ic_configs[k].name : k \in
                          {i \in 1..Len(ic_configs) :
                              /\ ic_configs[i].type \in {"http", "HTTP"}
                              /\ ic_configs[i].valid}}

\* C28: rendering a template that refers to a variable not defined for the
\* message fails with AlertConfigError, and a rendered output holds no
\* unresolved placeholder.
C28_MissingVariableIsAnError ==
    tpl_message # None =>
        /\ (\E i \in 1..Len(tpl_template) :
               /\ tpl_template[i].kind = "placeholder"
               /\ tpl_template[i].value \notin DOMAIN TemplateVars(tpl_message[1]))
              => tpl_ret.raised
        /\ ~tpl_ret.raised =>
              \A i \in 1..Len(tpl_ret.rendered) : tpl_ret.rendered[i].kind = "text"

\* What the code does instead: it never raises, and leaves the placeholder of
\* an undefined variable in the output as it was written.
C28_UndefinedLeftUnresolved ==
    tpl_message # None =>
        /\ ~tpl_ret.raised
        /\ \A i \in 1..Len(tpl_template) :
              (/\ tpl_template[i].kind = "placeholder"
               /\ tpl_template[i].value \notin DOMAIN TemplateVars(tpl_message[1]))
                 => tpl_ret.rendered[i] = tpl_template[i]

HighSample(sample) == sample[1] > 70 \/ sample[2] > 75
LowSample(sample) == sample[1] < 30 /\ sample[2] < 50

\* What C29 says of an adjustment from bound `before` on `sample`.
AdjustedWithinRange(before, sample) ==
    /\ max_concurrent_checks \in 1..20
    /\ max_concurrent_checks < before => HighSample(sample)
    /\ max_concurrent_checks > before => LowSample(sample)

\* C29: for any configured initial max_concurrent_checks, after every
\* adjustment the bound lies in [1, 20]; it is decreased only on a
\* high-utilization sample and increased only on a low-utilization sample.
C29_BoundStaysInRange ==
    opt_sample # None => AdjustedWithinRange(opt_sample[1].before, opt_sample[1].sample)

\* The part of C29 the code keeps: an adjustment of a bound that is in
\* [1, 20] behaves as stated.
C29_InRangeFromRange ==
    (opt_sample # None /\ opt_sample[1].before \in 1..20)
        => AdjustedWithinRange(opt_sample[1].before, opt_sample[1].sample)

\* The probe of the check_service_now task of s is over in this step.
NowProbeOver(s) ==
    /\ s \in DOMAIN cn_tasks /\ cn_tasks[s] = "probe"
    /\ s \in DOMAIN cn_tasks' /\ cn_tasks'[s] # "probe"

\* No other service's last check time changes in this step.
OthersUntouched(s) ==
    \A o \in Services \ {s} :
        /\ o \in DOMAIN last_check_times' <=> o \in DOMAIN last_check_times
        /\ o \in DOMAIN last_check_times => last_check_times'[o] = last_check_times[o]

\* C30: when the probe of check_service_now(name) is over, whether it
\* returned a result or raised, last_check_times[name] is the current time
\* and no other service's last check time has changed.
C30_NowUpdatesLastCheck ==
    [][\A s \in Services :
          NowProbeOver(s) =>
             /\ s \in DOMAIN last_check_times' /\ last_check_times'[s] = now
             /\ OthersUntouched(s)]_vars

\* The part of C30 the code keeps: a probe that returned a result updates its
\* own last check time, and no probe changes another service's.
C30_ReturnedUpdatesOnlyItsOwn ==
    [][\A s \in Services :
          NowProbeOver(s) =>
             /\ (s \in DOMAIN cn_outcomes' /\ cn_outcomes'[s] # None)
                   => (s \in DOMAIN last_check_times' /\ last_check_times'[s] = now)
             /\ OthersUntouched(s)]_vars

\* What the code does when the probe raised: last_check_times is left as it was.
C30_RaisedLeavesTimes ==
    [][\A s \in Services :
          (NowProbeOver(s) /\ s \in DOMAIN cn_outcomes' /\ cn_outcomes'[s] = None)
             => last_check_times' = last_check_times]_vars

\* ------------------------------------------------------------ C31 .. C39

\* C31: for every key (service_name, status) and any sequence of send_alert
\* calls, events stamped behind the wall clock included, a notification is
\* handed to the alerters only if no notification with that key has been
\* emitted before or the event's timestamp is at least one dedup window away
\* from the timestamp of the key's last notification.
C31_NoTwoWithinWindow ==
    [][ \A e \in StateChangeEvents :
          (send_alert(e) /\ sent' # sent /\ EventKey(e) \in DOMAIN last_emit)
             => Abs(e.timestamp - last_emit[EventKey(e)]) >= DuplicateThreshold ]_vars

\* The same for the keys whose last notification is still in _alert_history
\* (not purged by the wall clock).
C31_NoTwoWhileRecorded ==
    [][ \A e \in StateChangeEvents :
          (send_alert(e) /\ sent' # sent /\ EventKey(e) \in DOMAIN alert_history)
             => e.timestamp - alert_history[EventKey(e)] >= DuplicateThreshold ]_vars

\* C32 (as stated): should_continue() returns true if the handler tolerates
\* partial failure or no failure has been recorded, and false only when it
\* does not tolerate failures and at least one failure was recorded.
C32_ContinueIfTolerantOrNoFailure ==
    pf_ret # None =>
        pf_ret[1] = (continue_on_partial_failure \/ Len(failed_services) = 0)

\* C32 (amended): should_continue() returns true if no failure has been
\* recorded, or if the handler tolerates partial failure and at least one
\* success has been recorded; it returns false otherwise, so also for a
\* tolerant handler whose recorded results are all failures.
C32_ContinueIfSomeSuccessOrNoFailure ==
    pf_ret # None =>
        pf_ret[1] = (\/ Len(failed_services) = 0
                     \/ continue_on_partial_failure /\ Len(successful_services) > 0)

\* C32 witness: a tolerant handler with failures only answers false and,
\* after a success is recorded as well, a tolerant handler answers true.
C32_Witness ==
    /\ continue_on_partial_failure
    /\ Len(failed_services) = 2 /\ successful_services = <<>>
    /\ pf_ret = Some(FALSE)

\* C33: while the breaker is HALF_OPEN, calls in flight at once included, at
\* most half_open_max_calls invocations of the wrapped operation are admitted
\* between entering HALF_OPEN and the next transition to CLOSED or OPEN.
C33_HalfOpenAdmitsAtMostMax ==
    breaker.state = HALF_OPEN => cb_ho_admitted <= HalfOpenMaxCalls

\* What the breaker limits in HALF_OPEN is the successes recorded, not the
\* invocations: a call is admitted only while fewer than half_open_max_calls
\* successes have been recorded since HALF_OPEN was entered.
C33_AdmitsWhileSuccessesBelowMax ==
    [][ (breaker.state = HALF_OPEN /\ cb_op' = "call" /\ cb_flip' # cb_flip /\ cb_ret')
          => breaker.success_count < HalfOpenMaxCalls ]_vars

\* Where a _check_service task can be.
TaskPcs == {"waiting", "probe", "callback", "errback"}

\* The tick loop creates a check task for service s in this step.
TickSpawns(s) ==
    schedule_loop /\ TasksAt({s}, TaskPcs)' > TasksAt({s}, TaskPcs)

\* C34: the tick loop spawns a check for a service only if no check of that
\* service has been started before or at least check_interval seconds have
\* elapsed since its most recent check was started, also when that check
\* raised an exception or is still running.
C34_SpawnSpacedFromLastStart ==
    [][ \A s \in Services :
          TickSpawns(s) =>
             \/ s \notin DOMAIN last_spawn
             \/ now >= last_spawn[s] + check_intervals[s] ]_vars

\* What the interval test reads is the start of the most recent check whose
\* probe returned: a service is spawned only if no probe of it has returned
\* or check_interval seconds have elapsed since the start of that check.
C34_SpawnSpacedFromLastReturned ==
    [][ \A s \in Services :
          TickSpawns(s) =>
             \/ s \notin DOMAIN last_check_times
             \/ now >= last_check_times[s] + check_intervals[s] ]_vars

\* "UP" / "DOWN" for the state the tracker holds.
StatusOf(healthy) == IF healthy THEN "UP" ELSE "DOWN"

\* C35: with at least one healthy notifier and no filters, once the dispatch
\* of a result is over, for every service about which some notification was
\* delivered the status of the most recently delivered notification equals
\* the service's current state in the state tracker, also when the service
\* goes DOWN, UP, DOWN within one dedup window.
C35_LastDeliveredIsCurrentState ==
    ((\E a \in alerters : alerter_mode[a] = "ok") /\ alert_filters = <<>>)
       => \A s \in DOMAIN last_delivered :
             last_delivered[s] = StatusOf(current_states[s])

\* What holds: the most recently delivered notification of a service agrees
\* with the tracker unless a later change of the service was deduplicated,
\* that is, unless a notification of the current status was emitted within
\* the dedup window before the change.
C35_LastDeliveredUnlessDeduplicated ==
    ((\E a \in alerters : alerter_mode[a] = "ok") /\ alert_filters = <<>>)
       => \A s \in DOMAIN last_delivered :
             \/ last_delivered[s] = StatusOf(current_states[s])
             \/ <<s, StatusOf(current_states[s])>> \in DOMAIN alert_history

\* The value Semaphore object k was created with: its free slots and the
\* slots its tasks hold.
Capacity(k) ==
    sems[k] + BagCardinality([t \in {u \in BagToSet(tasks) : HoldsSlot(u) /\ u.sem = k}
                                |-> CopiesIn(t, tasks)])

\* C36: after optimize_concurrent_checks has replaced the semaphore while
\* checks are in flight, the number of tick-spawned probes executing at once
\* never exceeds the larger of the old and the new max_concurrent_checks.
C36_ProbesWithinLargerBound ==
    semaphore > 1 =>
        TasksAt(Services, {"probe"}) <= Max2(Capacity(semaphore - 1), max_concurrent_checks)

\* What the two semaphores keep: the probes executing are within the sum of
\* the old and the new bound, each object admitting up to its own value.
C36_ProbesWithinSumOfBounds ==
    semaphore > 1 =>
        TasksAt(Services, {"probe"}) <= Capacity(semaphore - 1) + max_concurrent_checks

\* C37: once configure_services has returned, a check that was in flight for
\* a service the call removed has no further effect: its result is not passed
\* to the result callback and last_check_times gets no entry for a service
\* that is not configured.
C37_RemovedServiceCheckDropped ==
    [][ \A s \in Services :
          ~HasChecker(s) =>
             /\ TasksAt({s}, {"callback"})' <= TasksAt({s}, {"callback"})
             /\ s \in DOMAIN last_check_times' => s \in DOMAIN last_check_times ]_vars

\* What the code keeps: a check of a removed service that was still waiting
\* for its slot when configure_services returned never invokes the probe.
C37_RemovedServiceNotProbed ==
    [][ \A s \in Services :
          ~HasChecker(s) => TasksAt({s}, {"probe"})' <= TasksAt({s}, {"probe"}) ]_vars

\* C38: for tick-spawned checks the error callback is invoked only when the
\* probe itself raised; for a probe that returned a result the result callback
\* is invoked and the error callback is not, even if the result callback
\* raises.
C38_ErrorCallbackOnlyForProbeErrors ==
    [][ TasksAt(Services, {"errback"})' > TasksAt(Services, {"errback"})
          => \E t \in BagToSet(tasks) : probe_raise(t) ]_vars

\* What the code keeps: a probe that returned goes to the result callback,
\* and the error callback follows it only if the result callback raised.
C38_ReturnedProbeInvokesResultCallback ==
    [][ \A t \in BagToSet(tasks) :
          probe_return(t) =>
             /\ TasksAt({t.service}, {"callback"})' = TasksAt({t.service}, {"callback"}) + 1
             /\ TasksAt(Services, {"errback"})' = TasksAt(Services, {"errback"}) ]_vars

\* C39: the persisted snapshot follows every mutation of the tracker: a new
\* StateManager on the same persistence file restores a state_changes list
\* equal to the last 100 entries of the old instance's in-memory list, so
\* changes removed by clear_state_changes() or cleanup_history() do not
\* reappear after a restart.
C39_RestartRestoresInMemoryChanges ==
    [][ (StateManager_init /\ persistence_file)
          => state_changes' = LastN(state_changes, SaveLimit) ]_vars

\* What the code keeps: the snapshot is written by update_state only, and
\* after every update_state it holds the last 100 entries of state_changes.
C39_SnapshotFollowsUpdateState ==
    [][ \A s \in Services, h \in BOOLEAN :
          (update_state(HealthCheckResult(s, h, now)) /\ persistence_file)
             => LoadStateChanges(file'[1]) = LastN(state_changes', SaveLimit) ]_vars

====
